---- MODULE Spec2Model ----
(***************************************************************************)
(* CollabDoc: the real-time annotation synchronisation core.               *)
(*                                                                         *)
(* The model follows backend/src/index.ts (the socket handler: presence    *)
(* registry, rooms, the annotation events), models/annotation.model.ts     *)
(* (schema validators, the unique compound index, the pre-save hook) and   *)
(* api/controllers/annotation.controller.ts (the REST surface).            *)
(*                                                                         *)
(* Every `await` of a handler is a point where other handlers may run. A   *)
(* handler is therefore a sequence of atomic steps, one per database       *)
(* operation, each followed by the synchronous code up to the next await.  *)
(***************************************************************************)
EXTENDS Integers, FiniteSets, Sequences, TLC

\* Bounds of the model.
MaxInFlight == 2        \* handlers awaiting a database answer at one time
MaxAnnotations == 2     \* annotation ids ever assigned
MaxListed == 3          \* annotations stored when a list is asked for

\* The cast: users, document ids, sockets.
Users == {"u1", "u2", "u3"}
Sockets == {"s1", "s2", "s3"}

\* A cast with one socket per user: the identity each socket's credential
\* resolves to (authenticateSocket).
OneSocketEach == [s \in Sockets |-> CASE s = "s1" -> "u1" [] s = "s2" -> "u2" [] OTHER -> "u3"]

\* The color stored with each user account.
UserColor == [u \in Users |-> CASE u = "u1" -> "red" [] u = "u2" -> "green" [] OTHER -> "blue"]

\* The documents collection at start: d1 owned by u1 with collaborators u2, u3;
\* d2 owned by u2 with collaborator u3; d3 does not exist.
InitDocuments ==
    [d \in {"d1", "d2"} |->
        IF d = "d1" THEN [owner |-> "u1", collaborators |-> {"u2", "u3"}]
                    ELSE [owner |-> "u2", collaborators |-> {"u3"}]]

VARIABLES
    documents,      \* the documents collection: id -> [owner, collaborators]
    annotations,    \* the annotations collection: a set of records
    nextId,         \* the next annotation _id
    socketUser,     \* socket -> the user it authenticated as (the closure's user)
    connected,      \* the sockets that are connected
    rooms,          \* socket -> the doc: rooms it is in (socket.rooms)
    documentUsers,  \* the presence registry: doc id -> (user id -> socket id)
    handlers,       \* slot -> the handler awaiting there, or Idle
    lastEvent,      \* the inbound event handled by the last step
    emitted,        \* the messages that step emitted
    clientSocket,       \* SocketService.socket: null, connecting, open, closed
    currentDocumentId,  \* SocketService.currentDocumentId, or NoDocument
    joined,             \* the documents the client joined and has not left since
    sent,               \* the events the client's last step emitted
    outbox,             \* the client's events on their way to the server
    inbox,              \* the server's annotation events on their way to the client
    response,           \* the client's GET of the annotations: its progress
    clientAnnotations   \* the annotations state of useAnnotations

dbVars == <<documents, annotations, nextId>>
roomVars == <<socketUser, connected, rooms, documentUsers>>
serviceVars == <<clientSocket, currentDocumentId, joined, sent>>
hookVars == <<outbox, inbox, response, clientAnnotations>>
clientVars == <<clientSocket, currentDocumentId, joined, sent,
                outbox, inbox, response, clientAnnotations>>
serverVars == <<documents, annotations, nextId, socketUser, connected, rooms,
                documentUsers, handlers, lastEvent, emitted>>
vars == <<documents, annotations, nextId, socketUser, connected, rooms, documentUsers,
          handlers, lastEvent, emitted, clientSocket, currentDocumentId, joined, sent,
          outbox, inbox, response, clientAnnotations>>

\* SocketService before connect(), useAnnotations before it is mounted.
NoDocument == "null"
NotAsked == [state |-> "none"]
ClientAbsent ==
    /\ clientSocket = "null"
    /\ currentDocumentId = NoDocument
    /\ joined = {}
    /\ sent = << >>
    /\ outbox = << >>
    /\ inbox = << >>
    /\ response = NotAsked
    /\ clientAnnotations = {}

Slots == 1 .. MaxInFlight
Idle == [op |-> "idle"]
NoEvent == [op |-> "none"]

FreeSlots == {i \in Slots : handlers[i] = Idle}
\* A new handler takes the lowest free slot.
NewSlot == CHOOSE i \in FreeSlots : \A j \in FreeSlots : i <= j

----------------------------------------------------------------------------
(* Helpers of the socket handler *)

\* A mutation of HasDocumentAccess, used to test the checks: any user has
\* access to any stored document.
HasDocumentAccessIfExists(userId, documentId) == documentId \in DOMAIN documents

\* hasDocumentAccess: false for a missing document, else owner or collaborator.
HasDocumentAccess(userId, documentId) ==
    IF documentId \notin DOMAIN documents
    THEN FALSE
    ELSE \/ documents[documentId].owner = userId
         \/ userId \in documents[documentId].collaborators

\* A mutation of GetActiveUsers, used to test the checks: the entries the
\* registry held before the handler changed it.
GetActiveUsersBeforeJoin(reg, documentId) ==
    IF documentId \in DOMAIN documentUsers
    THEN {[id |-> u, socketId |-> documentUsers[documentId][u]] :
            u \in DOMAIN documentUsers[documentId]}
    ELSE {}

\* getActiveUsers: the entries of the document's map in registry reg, or none.
GetActiveUsers(reg, documentId) ==
    IF documentId \in DOMAIN reg
    THEN {[id |-> u, socketId |-> reg[documentId][u]] : u \in DOMAIN reg[documentId]}
    ELSE {}

\* A mutation of SocketEmit, used to test the checks: the message goes to
\* every connected socket.
SocketEmitToAll(s, msg) == {[to |-> t] @@ msg : t \in connected}

\* socket.emit: to the socket itself; a disconnected socket gets nothing.
SocketEmit(s, msg) ==
    IF s \in connected THEN {[to |-> s] @@ msg} ELSE {}

\* socket.to(room).emit: to the connected sockets of the room except s.
SocketToRoomEmit(s, documentId, msg) ==
    {[to |-> t] @@ msg : t \in {x \in connected \ {s} : documentId \in rooms[x]}}

\* io.to(room).emit: to every connected socket of the room.
IoToRoomEmit(documentId, msg) ==
    {[to |-> t] @@ msg : t \in {x \in connected : documentId \in rooms[x]}}

ErrorMsg(text) == [event |-> "error", message |-> text]

----------------------------------------------------------------------------
(* The annotation model *)

\* The schema without the endOffset validator.
ValidAnnotationNoEndCheck(startOffset, endOffset, comment) ==
    /\ startOffset >= 0
    /\ comment # ""

\* Schema validators: startOffset min 0, endOffset > startOffset, comment required.
ValidAnnotation(startOffset, endOffset, comment) ==
    /\ startOffset >= 0
    /\ endOffset > startOffset
    /\ comment # ""

\* A mutation of FindOne, used to test the checks: a query without userId.
FindOneAnyUser(documentId, userId, startOffset, endOffset) ==
    {a \in annotations : /\ a.documentId = documentId
                         /\ a.startOffset = startOffset
                         /\ a.endOffset = endOffset}

\* Annotation.findOne({documentId, userId, startOffset, endOffset})
FindOne(documentId, userId, startOffset, endOffset) ==
    {a \in annotations : /\ a.documentId = documentId
                         /\ a.userId = userId
                         /\ a.startOffset = startOffset
                         /\ a.endOffset = endOffset}

\* The pre-save hook of a new document: findOne on the four key fields, and
\* an error (code 11000) when a record is found.
PreSaveHookRejects(documentId, userId, startOffset, endOffset) ==
    FindOne(documentId, userId, startOffset, endOffset) # {}

\* A collection whose unique index was never built: every insert is accepted.
UniqueIndexMissing(documentId, userId, startOffset, endOffset) == TRUE

\* The unique compound index {documentId, startOffset, endOffset, userId}:
\* an insert is refused when a record with the same key is stored.
UniqueIndexAllows(documentId, userId, startOffset, endOffset) ==
    \A a \in annotations : ~ (/\ a.documentId = documentId
                              /\ a.startOffset = startOffset
                              /\ a.endOffset = endOffset
                              /\ a.userId = userId)

\* A mutation of NewAnnotation, used to test the checks: records are stored
\* as resolved.
NewAnnotationResolved(id, documentId, userId, startOffset, endOffset, comment, color) ==
    [id |-> id, documentId |-> documentId, userId |-> userId,
     startOffset |-> startOffset, endOffset |-> endOffset,
     comment |-> comment, color |-> color, isResolved |-> TRUE]

\* The record Annotation.create stores: isResolved defaults to false.
NewAnnotation(id, documentId, userId, startOffset, endOffset, comment, color) ==
    [id |-> id, documentId |-> documentId, userId |-> userId,
     startOffset |-> startOffset, endOffset |-> endOffset,
     comment |-> comment, color |-> color, isResolved |-> FALSE]

FindById(id) == {a \in annotations : a.id = id}

----------------------------------------------------------------------------
(* Handler bookkeeping *)

\* A mutation of Finish, used to test the checks: the handler never returns.
FinishNever(i) == handlers

\* The handler in slot i ends: its slot is free again.
Finish(i) == [handlers EXCEPT ![i] = Idle]

\* Create handlers that may still insert: each will need an id.
PendingInserts ==
    {i \in Slots : /\ handlers[i].op \in {"create-annotation", "rest-create"}
                   /\ handlers[i].pc \in {"findOne", "save", "insert"}}

CanStartCreate ==
    /\ FreeSlots # {}
    /\ nextId + Cardinality(PendingInserts) <= MaxAnnotations

----------------------------------------------------------------------------
(* socket.on('create-annotation') *)

\* A mutation of CreateRequest, used to test the checks: the author is read
\* from the payload.
CreateRequestTrusting(s, p) ==
    [op |-> "create-annotation", sock |-> s, user |-> p.userId, pc |-> "access",
     documentId |-> p.documentId, startOffset |-> p.startOffset,
     endOffset |-> p.endOffset, comment |-> p.comment, annId |-> 0]

\* The fields the handler reads from the payload; the author is the
\* connection's authenticated user, whatever else the payload holds.
CreateRequest(s, p) ==
    [op |-> "create-annotation", sock |-> s, user |-> socketUser[s], pc |-> "access",
     documentId |-> p.documentId, startOffset |-> p.startOffset,
     endOffset |-> p.endOffset, comment |-> p.comment, annId |-> 0]

\* The event arrives and hasDocumentAccess answers: no access is an error to
\* the requester, else the handler goes on to the duplicate check.
CreateAnnotationAccess(s, p) ==
    LET req == CreateRequest(s, p) IN
    /\ s \in connected
    /\ CanStartCreate
    /\ IF ~ HasDocumentAccess(req.user, req.documentId)
       THEN /\ emitted' = SocketEmit(s, ErrorMsg("Access denied"))
            /\ UNCHANGED handlers
       ELSE /\ handlers' = [handlers EXCEPT ![NewSlot] = [req EXCEPT !.pc = "findOne"]]
            /\ emitted' = {}
    /\ UNCHANGED <<dbVars, roomVars>>

\* The duplicate check with endOffset compared to the payload's startOffset.
IsDuplicateWrongEnd(documentId, userId, startOffset, endOffset) ==
    FindOne(documentId, userId, startOffset, startOffset) # {}

\* "Check for duplicate" of the handler: the requester's own annotation on
\* exactly this range of this document.
IsDuplicate(documentId, userId, startOffset, endOffset) ==
    FindOne(documentId, userId, startOffset, endOffset) # {}

\* "Check for duplicate": Annotation.findOne answers.
CreateAnnotationFindOne(i) ==
    LET h == handlers[i] IN
    /\ h.op = "create-annotation" /\ h.pc = "findOne"
    /\ IF IsDuplicate(h.documentId, h.user, h.startOffset, h.endOffset)
       THEN /\ emitted' = SocketEmit(h.sock, ErrorMsg("Duplicate annotation"))
            /\ handlers' = Finish(i)
       ELSE /\ handlers' = [handlers EXCEPT ![i].pc = "save"]
            /\ emitted' = {}
    /\ UNCHANGED <<dbVars, roomVars>>

\* Annotation.create, up to the insert: the schema validators, then the
\* pre-save hook's findOne. Either failing throws, and the handler's catch
\* answers 'Failed to create annotation'.
CreateAnnotationSave(i) ==
    LET h == handlers[i] IN
    /\ h.op = "create-annotation" /\ h.pc = "save"
    /\ IF \/ ~ ValidAnnotation(h.startOffset, h.endOffset, h.comment)
          \/ PreSaveHookRejects(h.documentId, h.user, h.startOffset, h.endOffset)
       THEN /\ emitted' = SocketEmit(h.sock, ErrorMsg("Failed to create annotation"))
            /\ handlers' = Finish(i)
       ELSE /\ handlers' = [handlers EXCEPT ![i].pc = "insert"]
            /\ emitted' = {}
    /\ UNCHANGED <<dbVars, roomVars>>

\* The insert reaches the collection: the unique index refuses a second
\* record with the same key (E11000, caught like any other error).
CreateAnnotationInsert(i) ==
    LET h == handlers[i] IN
    /\ h.op = "create-annotation" /\ h.pc = "insert"
    /\ IF ~ UniqueIndexAllows(h.documentId, h.user, h.startOffset, h.endOffset)
       THEN /\ emitted' = SocketEmit(h.sock, ErrorMsg("Failed to create annotation"))
            /\ handlers' = Finish(i)
            /\ UNCHANGED <<annotations, nextId>>
       ELSE /\ annotations' = annotations \cup
                  {NewAnnotation(nextId, h.documentId, h.user, h.startOffset,
                                 h.endOffset, h.comment, UserColor[h.user])}
            /\ nextId' = nextId + 1
            /\ handlers' = [handlers EXCEPT ![i].pc = "populate", ![i].annId = nextId]
            /\ emitted' = {}
    /\ UNCHANGED <<documents, roomVars>>

\* populate answers; the record created is broadcast to the document's room.
CreateAnnotationBroadcast(i) ==
    LET h == handlers[i]
        created == NewAnnotation(h.annId, h.documentId, h.user, h.startOffset,
                                 h.endOffset, h.comment, UserColor[h.user])
    IN
    /\ h.op = "create-annotation" /\ h.pc = "populate"
    /\ emitted' = IoToRoomEmit(h.documentId,
                      [event |-> "annotation-created", annotation |-> created,
                       user |-> h.user])
    /\ handlers' = Finish(i)
    /\ UNCHANGED <<dbVars, roomVars>>

----------------------------------------------------------------------------
(* socket.on('update-annotation') *)

\* The paths an assignment marks modified: those whose value changes.
ModifiedPaths(doc, p) ==
    {f \in {"comment"} : p.hasComment /\ p.comment # doc.comment}
    \cup {f \in {"isResolved"} : p.hasIsResolved /\ p.isResolved # doc.isResolved}

\* The local document after "if (x !== undefined) existing.x = x".
ApplyUpdate(doc, p) ==
    [doc EXCEPT !.comment = IF p.hasComment THEN p.comment ELSE @,
                !.isResolved = IF p.hasIsResolved THEN p.isResolved ELSE @]

\* A mutation of SaveModified, used to test the checks: save() resolves
\* without writing.
SaveNothing(doc, modified) == annotations

\* A mutation of SaveModified, used to test the checks: save() writes every
\* field of the local document.
SaveWholeDocument(doc, modified) ==
    {IF a.id = doc.id THEN doc ELSE a : a \in annotations}

\* save() of a loaded document: $set of the modified paths on the stored
\* record with that _id.
SaveModified(doc, modified) ==
    {IF a.id = doc.id
     THEN [a EXCEPT !.comment = IF "comment" \in modified THEN doc.comment ELSE @,
                    !.isResolved = IF "isResolved" \in modified THEN doc.isResolved ELSE @]
     ELSE a : a \in annotations}

\* The update check passing for the document's owner too.
OnlyCreatorOrOwnerCanUpdate(doc, userId) ==
    \/ doc.userId = userId
    \/ (doc.documentId \in DOMAIN documents /\ documents[doc.documentId].owner = userId)

\* "Only creator can update": existingAnnotation.userId is the requester.
OnlyCreatorCanUpdate(doc, userId) == doc.userId = userId

UpdateRequest(s, p) ==
    [op |-> "update-annotation", sock |-> s, user |-> socketUser[s], pc |-> "findById",
     annId |-> p.annId]

\* The event arrives and findById answers: not found and not-the-creator are
\* errors to the requester; else the fields carried are assigned and save() is
\* called.
UpdateAnnotationFindById(s, p) ==
    LET req == UpdateRequest(s, p)
        found == FindById(p.annId)
    IN
    /\ s \in connected
    /\ FreeSlots # {}
    /\ IF found = {}
       THEN /\ emitted' = SocketEmit(s, ErrorMsg("Annotation not found"))
            /\ UNCHANGED handlers
       ELSE LET doc == CHOOSE a \in found : TRUE IN
            IF ~ OnlyCreatorCanUpdate(doc, req.user)
            THEN /\ emitted' = SocketEmit(s, ErrorMsg("Cannot update others annotations"))
                 /\ UNCHANGED handlers
            ELSE /\ handlers' = [handlers EXCEPT ![NewSlot] =
                        [op |-> "update-annotation", sock |-> s, user |-> req.user,
                         pc |-> "save", annId |-> p.annId,
                         doc |-> ApplyUpdate(doc, p), modified |-> ModifiedPaths(doc, p)]]
                 /\ emitted' = {}
    /\ UNCHANGED <<dbVars, roomVars>>

\* save() answers. Nothing modified: nothing is written. A modified comment is
\* validated (required); the update of a record that is gone throws
\* DocumentNotFoundError. Both are caught: 'Failed to update annotation'.
UpdateAnnotationSave(i) ==
    LET h == handlers[i] IN
    /\ h.op = "update-annotation" /\ h.pc = "save"
    /\ IF h.modified = {}
       THEN /\ handlers' = [handlers EXCEPT ![i].pc = "populate"]
            /\ emitted' = {}
            /\ UNCHANGED annotations
       ELSE IF \/ ("comment" \in h.modified /\ h.doc.comment = "")
               \/ FindById(h.annId) = {}
       THEN /\ emitted' = SocketEmit(h.sock, ErrorMsg("Failed to update annotation"))
            /\ handlers' = Finish(i)
            /\ UNCHANGED annotations
       ELSE /\ annotations' = SaveModified(h.doc, h.modified)
            /\ handlers' = [handlers EXCEPT ![i].pc = "populate"]
            /\ emitted' = {}
    /\ UNCHANGED <<documents, nextId, roomVars>>

\* populate answers; the local document is broadcast to the room of the
\* document id stored in it.
UpdateAnnotationBroadcast(i) ==
    LET h == handlers[i] IN
    /\ h.op = "update-annotation" /\ h.pc = "populate"
    /\ emitted' = IoToRoomEmit(h.doc.documentId,
                      [event |-> "annotation-updated", annotation |-> h.doc,
                       user |-> h.doc.userId])
    /\ handlers' = Finish(i)
    /\ UNCHANGED <<dbVars, roomVars>>

----------------------------------------------------------------------------
(* socket.on('delete-annotation') *)

\* What the delete handlers read of the annotation findById loaded.
Loaded(a) == [documentId |-> a.documentId, userId |-> a.userId]

\* annotation.userId.toString() === user.id
IsCreator(doc, userId) == doc.userId = userId

\* A mutation of IsOwner, used to test the checks: the owner of a document
\* whose room one of the user's connections is in.
IsOwnerOfJoinedRoom(documentId, userId) ==
    \E s \in connected : \E d \in rooms[s] \cap DOMAIN documents :
       socketUser[s] = userId /\ documents[d].owner = userId

\* document?.owner.toString() === user.id
IsOwner(documentId, userId) ==
    documentId \in DOMAIN documents /\ documents[documentId].owner = userId

\* The delete check without the owner's path.
CanDeleteCreatorOnly(doc, userId) == IsCreator(doc, userId)

\* "Check if user can delete": the creator or the document's owner.
CanDelete(doc, userId) == IsCreator(doc, userId) \/ IsOwner(doc.documentId, userId)

DeleteRequest(s, annId) ==
    [op |-> "delete-annotation", sock |-> s, user |-> socketUser[s], pc |-> "findById",
     annId |-> annId]

\* The event arrives and findById answers.
DeleteAnnotationFindById(s, annId) ==
    LET req == DeleteRequest(s, annId)
        found == FindById(annId)
    IN
    /\ s \in connected
    /\ FreeSlots # {}
    /\ IF found = {}
       THEN /\ emitted' = SocketEmit(s, ErrorMsg("Annotation not found"))
            /\ UNCHANGED handlers
       ELSE /\ handlers' = [handlers EXCEPT ![NewSlot] =
                   [req EXCEPT !.pc = "findDocument"] @@
                   [doc |-> Loaded(CHOOSE a \in found : TRUE)]]
            /\ emitted' = {}
    /\ UNCHANGED <<dbVars, roomVars>>

\* DocumentModel.findById answers: neither creator nor owner is an error.
DeleteAnnotationFindDocument(i) ==
    LET h == handlers[i] IN
    /\ h.op = "delete-annotation" /\ h.pc = "findDocument"
    /\ IF ~ CanDelete(h.doc, h.user)
       THEN /\ emitted' = SocketEmit(h.sock, ErrorMsg("Cannot delete this annotation"))
            /\ handlers' = Finish(i)
       ELSE /\ handlers' = [handlers EXCEPT ![i].pc = "deleteOne"]
            /\ emitted' = {}
    /\ UNCHANGED <<dbVars, roomVars>>

\* deleteOne answers: the record with that _id, if still stored, is removed.
DeleteAnnotationDeleteOne(i) ==
    LET h == handlers[i] IN
    /\ h.op = "delete-annotation" /\ h.pc = "deleteOne"
    /\ annotations' = {a \in annotations : a.id # h.annId}
    /\ handlers' = [handlers EXCEPT ![i].pc = "broadcast"]
    /\ emitted' = {}
    /\ UNCHANGED <<documents, nextId, roomVars>>

\* The handler resumes and broadcasts the deletion to the document's room.
DeleteAnnotationBroadcast(i) ==
    LET h == handlers[i] IN
    /\ h.op = "delete-annotation" /\ h.pc = "broadcast"
    /\ emitted' = IoToRoomEmit(h.doc.documentId,
                      [event |-> "annotation-deleted", annotationId |-> h.annId,
                       documentId |-> h.doc.documentId])
    /\ handlers' = Finish(i)
    /\ UNCHANGED <<dbVars, roomVars>>

----------------------------------------------------------------------------
(* The store failing: a database call of a handler rejects, the handler's *)
(* catch answers the requester                                             *)

\* catch of create-annotation: findOne, Annotation.create or populate threw.
CreateAnnotationError(i) ==
    LET h == handlers[i] IN
    /\ h.op = "create-annotation"
    /\ h.pc \in {"findOne", "save", "insert", "populate"}
    /\ emitted' = SocketEmit(h.sock, ErrorMsg("Failed to create annotation"))
    /\ handlers' = Finish(i)
    /\ UNCHANGED <<dbVars, roomVars>>

\* catch of update-annotation: save or populate threw.
UpdateAnnotationError(i) ==
    LET h == handlers[i] IN
    /\ h.op = "update-annotation"
    /\ h.pc \in {"save", "populate"}
    /\ emitted' = SocketEmit(h.sock, ErrorMsg("Failed to update annotation"))
    /\ handlers' = Finish(i)
    /\ UNCHANGED <<dbVars, roomVars>>

\* catch of delete-annotation: DocumentModel.findById or deleteOne threw.
DeleteAnnotationError(i) ==
    LET h == handlers[i] IN
    /\ h.op = "delete-annotation"
    /\ h.pc \in {"findDocument", "deleteOne"}
    /\ emitted' = SocketEmit(h.sock, ErrorMsg("Failed to delete annotation"))
    /\ handlers' = Finish(i)
    /\ UNCHANGED <<dbVars, roomVars>>

----------------------------------------------------------------------------
(* The REST controllers: createAnnotation, updateAnnotation, deleteAnnotation *)

\* res.status(...).json(...): the answer to the HTTP request of user u.
HttpReply(u, status, code) ==
    {[to |-> "http", user |-> u, event |-> "response", status |-> status, code |-> code]}

\* The route's validation chain of POST /documents/:docId/annotations.
RouteValid(p) == p.startOffset >= 0 /\ p.endOffset >= 1 /\ p.comment # ""

RestCreateRequest(u, p) ==
    [op |-> "rest-create", sock |-> "http", user |-> u, pc |-> "access",
     documentId |-> p.documentId, startOffset |-> p.startOffset,
     endOffset |-> p.endOffset, comment |-> p.comment, annId |-> 0]

\* validate(...), then "Check document access".
RestCreateAccess(u, p) ==
    LET req == RestCreateRequest(u, p) IN
    /\ CanStartCreate
    /\ IF ~ RouteValid(p)
       THEN /\ emitted' = HttpReply(u, 422, "VALIDATION_ERROR")
            /\ UNCHANGED handlers
       ELSE IF p.documentId \notin DOMAIN documents
       THEN /\ emitted' = HttpReply(u, 404, "NOT_FOUND")
            /\ UNCHANGED handlers
       ELSE IF ~ HasDocumentAccess(u, p.documentId)
       THEN /\ emitted' = HttpReply(u, 403, "FORBIDDEN")
            /\ UNCHANGED handlers
       ELSE /\ handlers' = [handlers EXCEPT ![NewSlot] = [req EXCEPT !.pc = "findOne"]]
            /\ emitted' = {}
    /\ UNCHANGED <<dbVars, roomVars>>

\* "Check for duplicate annotation": ConflictError.
RestCreateFindOne(i) ==
    LET h == handlers[i] IN
    /\ h.op = "rest-create" /\ h.pc = "findOne"
    /\ IF FindOne(h.documentId, h.user, h.startOffset, h.endOffset) # {}
       THEN /\ emitted' = HttpReply(h.user, 409, "CONFLICT")
            /\ handlers' = Finish(i)
       ELSE /\ handlers' = [handlers EXCEPT ![i].pc = "save"]
            /\ emitted' = {}
    /\ UNCHANGED <<dbVars, roomVars>>

\* Annotation.create up to the insert; errorHandler maps a ValidationError to
\* 422 and the hook's error (code 11000) to 409.
RestCreateSave(i) ==
    LET h == handlers[i] IN
    /\ h.op = "rest-create" /\ h.pc = "save"
    /\ IF ~ ValidAnnotation(h.startOffset, h.endOffset, h.comment)
       THEN /\ emitted' = HttpReply(h.user, 422, "VALIDATION_ERROR")
            /\ handlers' = Finish(i)
       ELSE IF PreSaveHookRejects(h.documentId, h.user, h.startOffset, h.endOffset)
       THEN /\ emitted' = HttpReply(h.user, 409, "DUPLICATE_KEY")
            /\ handlers' = Finish(i)
       ELSE /\ handlers' = [handlers EXCEPT ![i].pc = "insert"]
            /\ emitted' = {}
    /\ UNCHANGED <<dbVars, roomVars>>

\* The insert; the index's E11000 is answered 409 by errorHandler. A stored
\* record is answered 201 once populate returns (nothing else happens there).
RestCreateInsert(i) ==
    LET h == handlers[i] IN
    /\ h.op = "rest-create" /\ h.pc = "insert"
    /\ IF ~ UniqueIndexAllows(h.documentId, h.user, h.startOffset, h.endOffset)
       THEN /\ emitted' = HttpReply(h.user, 409, "DUPLICATE_KEY")
            /\ UNCHANGED <<annotations, nextId>>
       ELSE /\ annotations' = annotations \cup
                  {NewAnnotation(nextId, h.documentId, h.user, h.startOffset,
                                 h.endOffset, h.comment, UserColor[h.user])}
            /\ nextId' = nextId + 1
            /\ emitted' = HttpReply(h.user, 201, "CREATED")
    /\ handlers' = Finish(i)
    /\ UNCHANGED <<documents, roomVars>>

RestDeleteRequest(u, annId) ==
    [op |-> "rest-delete", sock |-> "http", user |-> u, pc |-> "findById",
     annId |-> annId]

\* DELETE /annotations/:id. findById answers.
RestDeleteFindById(u, annId) ==
    LET req == RestDeleteRequest(u, annId)
        found == FindById(annId)
    IN
    /\ FreeSlots # {}
    /\ IF found = {}
       THEN /\ emitted' = HttpReply(u, 404, "NOT_FOUND")
            /\ UNCHANGED handlers
       ELSE /\ handlers' = [handlers EXCEPT ![NewSlot] =
                   [req EXCEPT !.pc = "findDocument"] @@
                   [doc |-> Loaded(CHOOSE a \in found : TRUE)]]
            /\ emitted' = {}
    /\ UNCHANGED <<dbVars, roomVars>>

\* "Check if user can delete (creator or document owner)"
RestDeleteFindDocument(i) ==
    LET h == handlers[i] IN
    /\ h.op = "rest-delete" /\ h.pc = "findDocument"
    /\ IF ~ CanDelete(h.doc, h.user)
       THEN /\ emitted' = HttpReply(h.user, 403, "FORBIDDEN")
            /\ handlers' = Finish(i)
       ELSE /\ handlers' = [handlers EXCEPT ![i].pc = "deleteOne"]
            /\ emitted' = {}
    /\ UNCHANGED <<dbVars, roomVars>>

\* deleteOne answers and the controller replies.
RestDeleteDeleteOne(i) ==
    LET h == handlers[i] IN
    /\ h.op = "rest-delete" /\ h.pc = "deleteOne"
    /\ annotations' = {a \in annotations : a.id # h.annId}
    /\ emitted' = HttpReply(h.user, 200, "OK")
    /\ handlers' = Finish(i)
    /\ UNCHANGED <<documents, nextId, roomVars>>

RestUpdateRequest(u, p) ==
    [op |-> "rest-update", sock |-> "http", user |-> u, pc |-> "findById",
     annId |-> p.annId]

\* PUT /annotations/:id. findById answers; "Only the creator can update".
RestUpdateFindById(u, p) ==
    LET req == RestUpdateRequest(u, p)
        found == FindById(p.annId)
    IN
    /\ FreeSlots # {}
    /\ IF found = {}
       THEN /\ emitted' = HttpReply(u, 404, "NOT_FOUND")
            /\ UNCHANGED handlers
       ELSE LET doc == CHOOSE a \in found : TRUE IN
            IF ~ OnlyCreatorCanUpdate(doc, u)
            THEN /\ emitted' = HttpReply(u, 403, "FORBIDDEN")
                 /\ UNCHANGED handlers
            ELSE /\ handlers' = [handlers EXCEPT ![NewSlot] =
                        [op |-> "rest-update", sock |-> "http", user |-> u,
                         pc |-> "save", annId |-> p.annId,
                         doc |-> ApplyUpdate(doc, p), modified |-> ModifiedPaths(doc, p)]]
                 /\ emitted' = {}
    /\ UNCHANGED <<dbVars, roomVars>>

\* save() answers and the controller replies.
RestUpdateSave(i) ==
    LET h == handlers[i] IN
    /\ h.op = "rest-update" /\ h.pc = "save"
    /\ IF h.modified = {}
       THEN /\ emitted' = HttpReply(h.user, 200, "OK")
            /\ UNCHANGED annotations
       ELSE IF "comment" \in h.modified /\ h.doc.comment = ""
       THEN /\ emitted' = HttpReply(h.user, 422, "VALIDATION_ERROR")
            /\ UNCHANGED annotations
       ELSE IF FindById(h.annId) = {}
       THEN /\ emitted' = HttpReply(h.user, 500, "INTERNAL_ERROR")
            /\ UNCHANGED annotations
       ELSE /\ annotations' = SaveModified(h.doc, h.modified)
            /\ emitted' = HttpReply(h.user, 200, "OK")
    /\ handlers' = Finish(i)
    /\ UNCHANGED <<documents, nextId, roomVars>>

----------------------------------------------------------------------------
(* Rooms and presence: join-document, leave-document, disconnect *)

UserLeft(userId, documentId) ==
    [event |-> "user-left", userId |-> userId, documentId |-> documentId]

UserJoined(userId, documentId) ==
    [event |-> "user-joined", user |-> userId, documentId |-> documentId]

ActiveUsers(users, documentId) ==
    [event |-> "active-users", users |-> users, documentId |-> documentId]

\* A mutation of RemoveUser, used to test the checks: a map left empty is
\* kept in the registry.
RemoveUserKeepEmpty(reg, docs, userId) ==
    [d \in DOMAIN reg |->
        IF d \in docs
        THEN [v \in DOMAIN reg[d] \ {userId} |-> reg[d][v]]
        ELSE reg[d]]

\* users.delete(user.id) in each of docs that has a map, and
\* documentUsers.delete(docId) where the map is left empty.
RemoveUser(reg, docs, userId) ==
    [d \in {x \in DOMAIN reg : x \notin docs \/ DOMAIN reg[x] \ {userId} # {}} |->
        IF d \in docs
        THEN [v \in DOMAIN reg[d] \ {userId} |-> reg[d][v]]
        ELSE reg[d]]

\* The user-left notices that go with RemoveUser: one to the room of each of
\* docs whose map is not left empty, none where there is no map.
NotifyUserLeft(s, docs, userId, reg) ==
    UNION {IF d \in DOMAIN reg /\ DOMAIN reg[d] \ {userId} # {}
           THEN SocketToRoomEmit(s, d, UserLeft(userId, d))
           ELSE {} : d \in docs}

\* A mutation of SetUser, used to test the checks: an entry the user already
\* has is kept as it is.
SetUserIfAbsent(reg, documentId, userId, s) ==
    [d \in DOMAIN reg \cup {documentId} |->
        IF d = documentId
        THEN [v \in (IF d \in DOMAIN reg THEN DOMAIN reg[d] ELSE {}) \cup {userId} |->
                 IF d \in DOMAIN reg /\ v \in DOMAIN reg[d] THEN reg[d][v] ELSE s]
        ELSE reg[d]]

\* documentUsers.get(documentId).set(user.id, user), creating the map if needed.
SetUser(reg, documentId, userId, s) ==
    [d \in DOMAIN reg \cup {documentId} |->
        IF d = documentId
        THEN [v \in (IF d \in DOMAIN reg THEN DOMAIN reg[d] ELSE {}) \cup {userId} |->
                 IF v = userId THEN s ELSE reg[d][v]]
        ELSE reg[d]]

\* A mutation of CurrentRooms, used to test the checks: no room is left.
CurrentRoomsNone(s) == {}

\* The doc: rooms the socket is in as the join proceeds.
CurrentRooms(s) == rooms[s]

JoinRequest(s, documentId) ==
    [op |-> "join-document", sock |-> s, user |-> socketUser[s], pc |-> "access",
     documentId |-> documentId]

\* join-document arrives; the handler awaits hasDocumentAccess.
JoinDocument(s, documentId) ==
    /\ s \in connected
    /\ FreeSlots # {}
    /\ handlers' = [handlers EXCEPT ![NewSlot] = JoinRequest(s, documentId)]
    /\ emitted' = {}
    /\ UNCHANGED <<dbVars, roomVars>>

\* hasDocumentAccess answers and the rest of the handler runs in one piece:
\* refusal, or leaving the current rooms, joining, registering, notifying.
JoinDocumentAccess(i) ==
    /\ handlers[i].op = "join-document"
    /\ handlers[i].pc = "access"
    /\ LET s == handlers[i].sock
           userId == handlers[i].user
           documentId == handlers[i].documentId
           currentRooms == CurrentRooms(s)
           reg == SetUser(RemoveUser(documentUsers, currentRooms, userId),
                          documentId, userId, s)
       IN  IF ~ HasDocumentAccess(userId, documentId)
           THEN /\ emitted' = SocketEmit(s, ErrorMsg("Access denied to document"))
                /\ UNCHANGED <<rooms, documentUsers>>
           ELSE /\ rooms' = [rooms EXCEPT ![s] = (@ \ currentRooms) \cup {documentId}]
                /\ documentUsers' = reg
                /\ emitted' = NotifyUserLeft(s, currentRooms, userId, documentUsers)
                                \cup SocketToRoomEmit(s, documentId,
                                                      UserJoined(userId, documentId))
                                \cup SocketEmit(s, ActiveUsers(GetActiveUsers(reg, documentId),
                                                               documentId))
    /\ handlers' = Finish(i)
    /\ UNCHANGED <<dbVars, socketUser, connected>>

\* catch of join-document: hasDocumentAccess threw.
JoinDocumentError(i) ==
    /\ handlers[i].op = "join-document"
    /\ handlers[i].pc = "access"
    /\ emitted' = SocketEmit(handlers[i].sock, ErrorMsg("Failed to join document"))
    /\ handlers' = Finish(i)
    /\ UNCHANGED <<dbVars, roomVars>>

LeaveRequest(s, documentId) ==
    [op |-> "leave-document", sock |-> s, user |-> socketUser[s], pc |-> "leave",
     documentId |-> documentId]

\* leave-document: the whole handler is synchronous.
LeaveDocument(s, documentId) ==
    /\ s \in connected
    /\ rooms' = [rooms EXCEPT ![s] = @ \ {documentId}]
    /\ documentUsers' = RemoveUser(documentUsers, {documentId}, socketUser[s])
    /\ emitted' = NotifyUserLeft(s, {documentId}, socketUser[s], documentUsers)
    /\ UNCHANGED <<dbVars, socketUser, connected, handlers>>

\* A mutation of Disconnect, used to test the checks: the handlers the
\* socket started are dropped with the connection.
DisconnectCancelling(s) ==
    /\ s \in connected
    /\ connected' = connected \ {s}
    /\ rooms' = [rooms EXCEPT ![s] = {}]
    /\ documentUsers' = documentUsers
    /\ emitted' = {}
    /\ handlers' = [i \in Slots |->
                       IF handlers[i] # Idle /\ handlers[i].sock = s
                       THEN Idle ELSE handlers[i]]
    /\ UNCHANGED <<dbVars, socketUser>>

DisconnectRequest(s) ==
    [op |-> "disconnect", sock |-> s, user |-> socketUser[s], pc |-> "disconnect"]

\* The connection closes: the socket has left its rooms when the
\* 'disconnect' handler runs over the registry.
Disconnect(s) ==
    /\ s \in connected
    /\ connected' = connected \ {s}
    /\ rooms' = [rooms EXCEPT ![s] = {}]
    /\ LET userId == socketUser[s]
           docs == {d \in DOMAIN documentUsers : userId \in DOMAIN documentUsers[d]}
       IN  /\ documentUsers' = RemoveUser(documentUsers, docs, userId)
           /\ emitted' = NotifyUserLeft(s, docs, userId, documentUsers)
    /\ UNCHANGED <<dbVars, socketUser, handlers>>

----------------------------------------------------------------------------
(* The REST controller getAnnotations *)

\* The sequences that list every element of set once.
Orderings(set) ==
    {f \in [1 .. Cardinality(set) -> set] :
        \A i, j \in 1 .. Cardinality(set) : i # j => f[i] # f[j]}

\* A mutation of SortsBefore, used to test the checks: oldest first.
SortsBeforeOldestFirst(a, b) ==
    \/ a.startOffset < b.startOffset
    \/ (a.startOffset = b.startOffset /\ a.createdAt < b.createdAt)

\* .sort({ startOffset: 1, createdAt: -1 }): a comes strictly before b.
SortsBefore(a, b) ==
    \/ a.startOffset < b.startOffset
    \/ (a.startOffset = b.startOffset /\ a.createdAt > b.createdAt)

\* The orders the sorted query may return set in: records with equal keys
\* come in any order.
Sort(set) ==
    {seq \in Orderings(set) :
        \A i, j \in 1 .. Len(seq) : i < j => ~ SortsBefore(seq[j], seq[i])}

\* .skip(skip).limit(limit) of a result sequence.
SkipLimit(seq, skip, limit) ==
    SubSeq(seq, skip + 1, IF skip + limit < Len(seq) THEN skip + limit ELSE Len(seq))

\* Math.ceil(total / limit)
Pages(total, limit) == (total + limit - 1) \div limit

ListRequest(u, documentId, page, limit) ==
    [op |-> "rest-list", sock |-> "http", user |-> u, pc |-> "find",
     documentId |-> documentId, page |-> page, limit |-> limit]

\* GET /documents/:docId/annotations, with nothing else running between its
\* reads: 404 for no document, 403 without access, else the page of the
\* sorted annotations of the document and their count.
GetAnnotations(u, documentId, page, limit) ==
    /\ IF documentId \notin DOMAIN documents
       THEN emitted' = HttpReply(u, 404, "NOT_FOUND")
       ELSE IF ~ HasDocumentAccess(u, documentId)
       THEN emitted' = HttpReply(u, 403, "FORBIDDEN")
       ELSE LET found == {a \in annotations : a.documentId = documentId}
                skip == (page - 1) * limit
                total == Cardinality(found)
            IN  \E sorted \in Sort(found) :
                   emitted' = {[to |-> "http", user |-> u, event |-> "response",
                                status |-> 200, code |-> "OK",
                                annotations |-> SkipLimit(sorted, skip, limit),
                                page |-> page, limit |-> limit, total |-> total,
                                pages |-> Pages(total, limit)]}
    /\ UNCHANGED <<dbVars, roomVars, handlers>>

----------------------------------------------------------------------------
(* The static Annotation.findOverlapping *)

\* A mutation of MatchesOverlapQuery, used to test the checks: every
\* comparison of the query allows equality.
MatchesOverlapQueryOrTouches(a, startOffset, endOffset) ==
    \/ (a.startOffset <= startOffset /\ a.endOffset >= startOffset)
    \/ (a.startOffset <= endOffset /\ a.endOffset >= endOffset)
    \/ (a.startOffset >= startOffset /\ a.endOffset <= endOffset)

\* The $or of the query: the new start inside the existing range, the new
\* end inside it, or the new range wholly containing it.
MatchesOverlapQuery(a, startOffset, endOffset) ==
    \/ (a.startOffset <= startOffset /\ a.endOffset > startOffset)
    \/ (a.startOffset < endOffset /\ a.endOffset >= endOffset)
    \/ (a.startOffset >= startOffset /\ a.endOffset <= endOffset)

OverlapRequest(documentId, startOffset, endOffset) ==
    [op |-> "find-overlapping", sock |-> "caller", pc |-> "find",
     documentId |-> documentId, startOffset |-> startOffset, endOffset |-> endOffset]

\* Annotation.findOverlapping(documentId, startOffset, endOffset): one find.
FindOverlapping(documentId, startOffset, endOffset) ==
    /\ emitted' = {[to |-> "caller", event |-> "overlapping",
                    found |-> {a \in annotations :
                                 /\ a.documentId = documentId
                                 /\ MatchesOverlapQuery(a, startOffset, endOffset)}]}
    /\ UNCHANGED <<dbVars, roomVars, handlers>>

----------------------------------------------------------------------------
(* hasDocumentAccess as its callers meet it *)

\* The ids that cast to an ObjectId; any other value of documentId makes
\* DocumentModel.findById reject with a CastError.
ObjectIds == {"d1", "d2", "d3", "d4"}

AccessRequest(userId, documentId) ==
    [op |-> "has-document-access", sock |-> "caller", user |-> userId, pc |-> "findById",
     documentId |-> documentId]

\* await hasDocumentAccess(userId, documentId): the promise resolves to the
\* function's boolean, or rejects when findById rejects.
HasDocumentAccessCall(userId, documentId) ==
    /\ emitted' = IF documentId \in ObjectIds
                  THEN {[to |-> "caller", event |-> "returned",
                         value |-> HasDocumentAccess(userId, documentId)]}
                  ELSE {[to |-> "caller", event |-> "threw", error |-> "CastError"]}
    /\ UNCHANGED <<dbVars, roomVars, handlers>>

----------------------------------------------------------------------------
(* The REST controller deleteDocument *)

DeleteDocumentRequest(u, documentId) ==
    [op |-> "rest-delete-document", sock |-> "http", user |-> u, pc |-> "findById",
     documentId |-> documentId]

\* DELETE /documents/:id. findById answers: 404 for no document, 403 for a
\* requester who is not the owner, else Annotation.deleteMany is called.
DeleteDocumentFindById(u, documentId) ==
    /\ FreeSlots # {}
    /\ IF documentId \notin DOMAIN documents
       THEN /\ emitted' = HttpReply(u, 404, "NOT_FOUND")
            /\ UNCHANGED handlers
       ELSE IF documents[documentId].owner # u
       THEN /\ emitted' = HttpReply(u, 403, "FORBIDDEN")
            /\ UNCHANGED handlers
       ELSE /\ handlers' = [handlers EXCEPT ![NewSlot] =
                   [DeleteDocumentRequest(u, documentId) EXCEPT !.pc = "deleteMany"]]
            /\ emitted' = {}
    /\ UNCHANGED <<dbVars, roomVars>>

\* Annotation.deleteMany({documentId}) answers: the document's annotations
\* stored at that moment are removed; fs.unlink is called.
DeleteDocumentDeleteMany(i) ==
    LET h == handlers[i] IN
    /\ h.op = "rest-delete-document" /\ h.pc = "deleteMany"
    /\ annotations' = {a \in annotations : a.documentId # h.documentId}
    /\ handlers' = [handlers EXCEPT ![i].pc = "unlink"]
    /\ emitted' = {}
    /\ UNCHANGED <<documents, nextId, roomVars>>

\* fs.unlink answers (its errors are ignored); document.deleteOne is called.
DeleteDocumentUnlink(i) ==
    LET h == handlers[i] IN
    /\ h.op = "rest-delete-document" /\ h.pc = "unlink"
    /\ handlers' = [handlers EXCEPT ![i].pc = "deleteOne"]
    /\ emitted' = {}
    /\ UNCHANGED <<dbVars, roomVars>>

\* document.deleteOne() answers: the document is gone; 200.
DeleteDocumentDeleteOne(i) ==
    LET h == handlers[i] IN
    /\ h.op = "rest-delete-document" /\ h.pc = "deleteOne"
    /\ documents' = [d \in DOMAIN documents \ {h.documentId} |-> documents[d]]
    /\ emitted' = HttpReply(h.user, 200, "OK")
    /\ handlers' = Finish(i)
    /\ UNCHANGED <<annotations, nextId, roomVars>>

----------------------------------------------------------------------------
(* io.on('connection'): authentication of a new socket *)

\* The closure's user before authenticateSocket has answered, and its answer
\* for a credential that does not resolve to a user.
Unauthenticated == "unauthenticated"
NoUser == "null"

\* A mutation of AuthenticateSocket, used to test the checks: the user
\* named by a verified token is not looked up.
AuthenticateSocketNoLookup(token) ==
    IF token.kind = "valid" THEN token.userId ELSE NoUser

\* authenticateSocket: null without a token, null when jwt.verify throws
\* (malformed, expired), null when the user is not found, else the user.
AuthenticateSocket(token) ==
    IF token.kind = "missing" THEN NoUser
    ELSE IF token.kind \in {"malformed", "expired"} THEN NoUser
    ELSE IF token.userId \notin Users THEN NoUser
    ELSE token.userId

\* The event handlers of a socket are attached once its user is known.
Registered(s) == s \in connected /\ socketUser[s] \in Users

ConnectionRequest(s, token) ==
    [op |-> "connection", sock |-> s, user |-> Unauthenticated, pc |-> "authenticate",
     token |-> token]

\* A client connects with its handshake token; the connection handler awaits
\* authenticateSocket.
Connection(s, token) ==
    /\ s \notin connected
    /\ socketUser[s] = Unauthenticated
    /\ FreeSlots # {}
    /\ connected' = connected \cup {s}
    /\ handlers' = [handlers EXCEPT ![NewSlot] = ConnectionRequest(s, token)]
    /\ emitted' = {}
    /\ UNCHANGED <<dbVars, socketUser, rooms, documentUsers>>

\* authenticateSocket answers: no user is an error and socket.disconnect();
\* else the user is stored and the socket's handlers are attached.
ConnectionAuthenticated(i) ==
    /\ handlers[i].op = "connection"
    /\ handlers[i].pc = "authenticate"
    /\ LET s == handlers[i].sock
           user == AuthenticateSocket(handlers[i].token)
       IN  /\ socketUser' = [socketUser EXCEPT ![s] = user]
           /\ IF user = NoUser
              THEN /\ emitted' = SocketEmit(s, ErrorMsg("Authentication required"))
                   /\ connected' = connected \ {s}
              ELSE /\ emitted' = {}
                   /\ UNCHANGED connected
    /\ handlers' = Finish(i)
    /\ UNCHANGED <<dbVars, rooms, documentUsers>>

\* An event reaches a socket that has no handler attached for it: nothing
\* runs.
Unhandled(s) ==
    /\ s \in connected
    /\ ~ Registered(s)
    /\ emitted' = {}
    /\ UNCHANGED <<dbVars, roomVars, handlers>>

----------------------------------------------------------------------------
(* The client's SocketService *)

JoinMsg(d) == [event |-> "join-document", documentId |-> d]
LeaveMsg(d) == [event |-> "leave-document", documentId |-> d]

\* The service as one value: its socket, its currentDocumentId and what the
\* running call has emitted so far.
Service == [socket |-> clientSocket, current |-> currentDocumentId, sent |-> << >>]

\* leaveDocument(documentId): nothing when not connected; else the event is
\* emitted and currentDocumentId cleared if it is that document.
LeaveDocumentOf(st, d) ==
    IF st.socket # "open" THEN st
    ELSE [st EXCEPT !.sent = Append(@, LeaveMsg(d)),
                    !.current = IF @ = d THEN NoDocument ELSE @]

\* joinDocument(documentId): nothing when not connected; else the current
\* document, if another, is left, the event is emitted and the document
\* becomes the current one.
JoinDocumentOf(st, d) ==
    IF st.socket # "open" THEN st
    ELSE LET left == IF st.current # NoDocument /\ st.current # d
                     THEN LeaveDocumentOf(st, st.current) ELSE st
         IN  [left EXCEPT !.sent = Append(@, JoinMsg(d)), !.current = d]

\* A mutation of Rejoin, used to test the checks: the connect handler only
\* logs.
RejoinNever(st) == st

\* The 'connect' handler: "Rejoin document room if was in one".
Rejoin(st) ==
    IF st.current # NoDocument THEN JoinDocumentOf(st, st.current) ELSE st

\* The service's fields after a call.
ServiceBecomes(st) ==
    /\ clientSocket' = st.socket
    /\ currentDocumentId' = st.current
    /\ sent' = st.sent

\* connect(token): the socket in use if it is connected, else a new socket
\* that starts connecting.
ClientConnect ==
    /\ ServiceBecomes(IF clientSocket = "open" THEN Service
                      ELSE [Service EXCEPT !.socket = "connecting"])
    /\ UNCHANGED joined

\* The socket's 'connect' event, on the first connection and on every
\* reconnection.
ClientOnConnect ==
    /\ clientSocket = "connecting"
    /\ ServiceBecomes(Rejoin([Service EXCEPT !.socket = "open"]))
    /\ UNCHANGED joined

\* The socket's 'disconnect' event: after the transport was lost the socket
\* tries to reconnect (reconnection: true), after the server closed it, it
\* does not.
ClientOnDisconnect(reason) ==
    /\ clientSocket = "open"
    /\ ServiceBecomes([Service EXCEPT !.socket =
                          IF reason = "io server disconnect" THEN "closed"
                          ELSE "connecting"])
    /\ UNCHANGED joined

\* The attempts to reconnect (reconnectionAttempts: 5) have all failed.
ClientReconnectFailed ==
    /\ clientSocket = "connecting"
    /\ ServiceBecomes([Service EXCEPT !.socket = "closed"])
    /\ UNCHANGED joined

\* disconnect(): the socket is closed and dropped, currentDocumentId cleared.
ClientDisconnect ==
    /\ ServiceBecomes(IF clientSocket = "null" THEN Service
                      ELSE [Service EXCEPT !.socket = "null", !.current = NoDocument])
    /\ joined' = {}

\* A call of joinDocument(d); the client has joined d when the event went
\* out, and has left the document joinDocument left on the way.
ClientJoinDocument(d) ==
    /\ ServiceBecomes(JoinDocumentOf(Service, d))
    /\ joined' = IF clientSocket = "open" THEN {d} \cup (joined \ {currentDocumentId})
                 ELSE joined

\* A call of leaveDocument(d).
ClientLeaveDocument(d) ==
    /\ ServiceBecomes(LeaveDocumentOf(Service, d))
    /\ joined' = joined \ {d}

\* createAnnotation(annotation): nothing when not connected, else the event
\* is emitted.
ClientCreateAnnotation(d) ==
    /\ ServiceBecomes(IF clientSocket # "open" THEN Service
                      ELSE [Service EXCEPT !.sent =
                              <<[event |-> "create-annotation", documentId |-> d]>>])
    /\ UNCHANGED joined

\* What the client did in the last step.
ClientDid(op) == lastEvent' = [op |-> op]

----------------------------------------------------------------------------
(* What the last step handled *)

\* A request that ends in its first step (no handler is left awaiting).
EndedAtOnce(req) ==
    lastEvent' = IF handlers' = handlers THEN [req EXCEPT !.pc = "done"] ELSE NoEvent

\* The request of slot i, if this step ended it.
EndedIn(i) ==
    lastEvent' = IF handlers'[i] = Idle THEN [handlers[i] EXCEPT !.pc = "done"] ELSE NoEvent

\* A step of the server while no client of the page is modelled.
HandledAtOnce(req) == EndedAtOnce(req) /\ UNCHANGED clientVars
HandledIn(i) == EndedIn(i) /\ UNCHANGED clientVars

----------------------------------------------------------------------------
(* The client's useAnnotations hook *)

\* The page's connection, its user and the document it shows.
PageSocket == "s1"
PageUser == "u1"
PageDocument == "d1"

AnnotationEvents == {"annotation-created", "annotation-updated", "annotation-deleted"}

\* The annotation events among msgs that go to the page's socket, in a
\* sequence (a step emits at most one event to a socket's listeners here).
Deliveries(msgs) ==
    LET mine == {m \in msgs : m.to = PageSocket /\ m.event \in AnnotationEvents}
    IN  IF mine = {} THEN << >> ELSE <<CHOOSE m \in mine : TRUE>>

\* handleAnnotationCreated: replace the annotation with that _id, else add
\* it (the order of the list is not modelled).
HandleAnnotationCreated(prev, annotation) ==
    IF \E a \in prev : a.id = annotation.id
    THEN {IF a.id = annotation.id THEN annotation ELSE a : a \in prev}
    ELSE prev \cup {annotation}

\* handleAnnotationUpdated: replace the annotation with that _id, if listed.
HandleAnnotationUpdated(prev, annotation) ==
    {IF a.id = annotation.id THEN annotation ELSE a : a \in prev}

\* handleAnnotationDeleted: drop the annotation with that _id.
HandleAnnotationDeleted(prev, annotationId) ==
    {a \in prev : a.id # annotationId}

\* The effect on [documentId]: joinDocument and loadAnnotations, whose GET
\* goes out.
UseAnnotationsMount ==
    /\ response = NotAsked
    /\ clientSocket = "open"
    /\ ClientJoinDocument(PageDocument)
    /\ outbox' = outbox \o sent'
    /\ response' = [state |-> "asked"]
    /\ UNCHANGED <<inbox, clientAnnotations>>

\* getAnnotations answers the GET (page 1, limit 100: more than is ever
\* stored here) with the annotations stored for the document at that moment.
GetByDocument ==
    /\ response = [state |-> "asked"]
    /\ PageDocument \in DOMAIN documents
    /\ HasDocumentAccess(PageUser, PageDocument)
    /\ response' = [state |-> "answered",
                    annotations |-> {a \in annotations : a.documentId = PageDocument}]
    /\ UNCHANGED <<serviceVars, outbox, inbox, clientAnnotations>>

\* loadAnnotations resumes: setAnnotations(response.annotations).
LoadAnnotationsApply ==
    /\ response.state = "answered"
    /\ clientAnnotations' = response.annotations
    /\ response' = [state |-> "applied"]
    /\ UNCHANGED <<serviceVars, outbox, inbox>>

\* The next event reaches the socket and its listener updates the list.
ClientOnAnnotationEvent ==
    /\ inbox # << >>
    /\ LET m == Head(inbox) IN
          clientAnnotations' =
              CASE m.event = "annotation-created" ->
                      HandleAnnotationCreated(clientAnnotations, m.annotation)
                [] m.event = "annotation-updated" ->
                      HandleAnnotationUpdated(clientAnnotations, m.annotation)
                [] OTHER -> HandleAnnotationDeleted(clientAnnotations, m.annotationId)
    /\ inbox' = Tail(inbox)
    /\ UNCHANGED <<serviceVars, outbox, response>>

\* A step of the server while the page is open: the annotation events it
\* emits to the page's socket are on their way.
Delivered ==
    /\ inbox' = inbox \o Deliveries(emitted')
    /\ UNCHANGED <<serviceVars, outbox, response, clientAnnotations>>
DeliveredAtOnce(req) == EndedAtOnce(req) /\ Delivered
DeliveredIn(i) == EndedIn(i) /\ Delivered

\* The client's join-document reaches the server and its handler starts.
JoinDocumentArrives ==
    /\ outbox # << >>
    /\ Head(outbox).event = "join-document"
    /\ JoinDocument(PageSocket, Head(outbox).documentId)
    /\ outbox' = Tail(outbox)
    /\ lastEvent' = NoEvent
    /\ UNCHANGED <<serviceVars, inbox, response, clientAnnotations>>

----------------------------------------------------------------------------
(* Concurrent creation: socket create-annotation and REST createAnnotation *)

\* The requests clients send: two sockets and one REST client (user u1, who
\* is also behind s1); d2 is closed to u1 and d3 does not exist; two valid
\* overlapping ranges, one empty range, one negative start.
CreateSockets == {"s1", "s2"}
RestUsers == {"u1"}
CreateDocs == {"d1", "d2", "d3"}
OffsetInputs == {<<0, 1>>, <<0, 2>>, <<1, 1>>, <<-1, 1>>}
CreateInputs ==
    {[documentId |-> d, startOffset |-> o[1], endOffset |-> o[2], comment |-> "a"] :
        d \in CreateDocs, o \in OffsetInputs}

\* s1 and s2 have joined d1, s3 has joined d2; nothing is stored yet.
InitCreate ==
    /\ documents = InitDocuments
    /\ annotations = {}
    /\ nextId = 1
    /\ socketUser = OneSocketEach
    /\ connected = Sockets
    /\ rooms = [s \in Sockets |-> IF s = "s3" THEN {"d2"} ELSE {"d1"}]
    /\ documentUsers = [d \in {"d1", "d2"} |->
                           IF d = "d1" THEN [u \in {"u1", "u2"} |->
                                                IF u = "u1" THEN "s1" ELSE "s2"]
                                       ELSE [u \in {"u3"} |-> "s3"]]
    /\ handlers = [i \in Slots |-> Idle]
    /\ lastEvent = NoEvent
    /\ emitted = {}
    /\ ClientAbsent

NextCreate ==
    \/ \E s \in CreateSockets, p \in CreateInputs :
          CreateAnnotationAccess(s, p) /\ HandledAtOnce(CreateRequest(s, p))
    \/ \E i \in Slots : CreateAnnotationFindOne(i) /\ HandledIn(i)
    \/ \E i \in Slots : CreateAnnotationSave(i) /\ HandledIn(i)
    \/ \E i \in Slots : CreateAnnotationInsert(i) /\ HandledIn(i)
    \/ \E i \in Slots : CreateAnnotationBroadcast(i) /\ HandledIn(i)
    \/ \E u \in RestUsers, p \in CreateInputs :
          RestCreateAccess(u, p) /\ HandledAtOnce(RestCreateRequest(u, p))
    \/ \E i \in Slots : RestCreateFindOne(i) /\ HandledIn(i)
    \/ \E i \in Slots : RestCreateSave(i) /\ HandledIn(i)
    \/ \E i \in Slots : RestCreateInsert(i) /\ HandledIn(i)

SpecCreate == InitCreate /\ [][NextCreate]_vars

----------------------------------------------------------------------------
(* Updates and deletions of stored annotations *)

AnnotationIds == 1 .. MaxAnnotations

\* update-annotation payloads: a new comment, an empty comment, a resolve.
UpdateInputs ==
    {[annId |-> id, hasComment |-> TRUE, comment |-> c,
      hasIsResolved |-> FALSE, isResolved |-> FALSE] :
        id \in AnnotationIds, c \in {"b", ""}}
    \cup {[annId |-> id, hasComment |-> FALSE, comment |-> "",
           hasIsResolved |-> TRUE, isResolved |-> TRUE] : id \in AnnotationIds}

\* Two annotations created earlier: u2's on d1 (owned by u1) and u3's on d2
\* (owned by u2).
StoredAnnotations ==
    {NewAnnotation(1, "d1", "u2", 0, 1, "a", UserColor["u2"]),
     NewAnnotation(2, "d2", "u3", 0, 2, "a", UserColor["u3"])}

InitMutate(stored) ==
    /\ documents = InitDocuments
    /\ annotations = stored
    /\ nextId = Cardinality(stored) + 1
    /\ socketUser = OneSocketEach
    /\ connected = Sockets
    /\ rooms = [s \in Sockets |-> IF s = "s3" THEN {"d2"} ELSE {"d1"}]
    /\ documentUsers = [d \in {"d1", "d2"} |->
                           IF d = "d1" THEN [u \in {"u1", "u2"} |->
                                                IF u = "u1" THEN "s1" ELSE "s2"]
                                       ELSE [u \in {"u3"} |-> "s3"]]
    /\ handlers = [i \in Slots |-> Idle]
    /\ lastEvent = NoEvent
    /\ emitted = {}
    /\ ClientAbsent

NextUpdate ==
    \/ \E s \in Sockets, p \in UpdateInputs :
          UpdateAnnotationFindById(s, p) /\ HandledAtOnce(UpdateRequest(s, p))
    \/ \E i \in Slots : UpdateAnnotationSave(i) /\ HandledIn(i)
    \/ \E i \in Slots : UpdateAnnotationBroadcast(i) /\ HandledIn(i)
    \/ \E u \in Users, p \in UpdateInputs :
          RestUpdateFindById(u, p) /\ HandledAtOnce(RestUpdateRequest(u, p))
    \/ \E i \in Slots : RestUpdateSave(i) /\ HandledIn(i)

\* Updates of u2's annotation on d1.
InitUpdate == InitMutate({a \in StoredAnnotations : a.id = 1})

SpecUpdate == InitUpdate /\ [][NextUpdate]_vars

NextDelete ==
    \/ \E s \in Sockets, id \in AnnotationIds :
          DeleteAnnotationFindById(s, id) /\ HandledAtOnce(DeleteRequest(s, id))
    \/ \E i \in Slots : DeleteAnnotationFindDocument(i) /\ HandledIn(i)
    \/ \E i \in Slots : DeleteAnnotationDeleteOne(i) /\ HandledIn(i)
    \/ \E i \in Slots : DeleteAnnotationBroadcast(i) /\ HandledIn(i)
    \/ \E u \in Users, id \in AnnotationIds :
          RestDeleteFindById(u, id) /\ HandledAtOnce(RestDeleteRequest(u, id))
    \/ \E i \in Slots : RestDeleteFindDocument(i) /\ HandledIn(i)
    \/ \E i \in Slots : RestDeleteDeleteOne(i) /\ HandledIn(i)

InitDelete == InitMutate(StoredAnnotations)

SpecDelete == InitDelete /\ [][NextDelete]_vars

----------------------------------------------------------------------------
(* The socket's annotation events together, with a store that may fail *)

\* s2, a collaborator of d1, creates; s1, the owner of d1, and s2 update and
\* delete.
StoreWriters == {"s2"}
StoreSockets == {"s1", "s2"}

\* create-annotation payloads: a range on d1, a range on the missing d3.
StoreCreateInputs ==
    {[documentId |-> "d1", startOffset |-> 0, endOffset |-> 1, comment |-> "a"],
     [documentId |-> "d3", startOffset |-> 0, endOffset |-> 1, comment |-> "a"]}

\* update-annotation payloads: a new comment, an empty comment.
StoreUpdateInputs ==
    {p \in UpdateInputs : p.hasComment}

\* s1, who is in room d1, asks to join d1 again and the closed d2.
StoreJoiners == {"s1"}
StoreJoinInputs == {"d1", "d2"}

NextStore ==
    \/ \E s \in StoreWriters, p \in StoreCreateInputs :
          CreateAnnotationAccess(s, p) /\ HandledAtOnce(CreateRequest(s, p))
    \/ \E i \in Slots : CreateAnnotationFindOne(i) /\ HandledIn(i)
    \/ \E i \in Slots : CreateAnnotationSave(i) /\ HandledIn(i)
    \/ \E i \in Slots : CreateAnnotationInsert(i) /\ HandledIn(i)
    \/ \E i \in Slots : CreateAnnotationBroadcast(i) /\ HandledIn(i)
    \/ \E i \in Slots : CreateAnnotationError(i) /\ HandledIn(i)
    \/ \E s \in StoreSockets, p \in StoreUpdateInputs :
          UpdateAnnotationFindById(s, p) /\ HandledAtOnce(UpdateRequest(s, p))
    \/ \E i \in Slots : UpdateAnnotationSave(i) /\ HandledIn(i)
    \/ \E i \in Slots : UpdateAnnotationBroadcast(i) /\ HandledIn(i)
    \/ \E i \in Slots : UpdateAnnotationError(i) /\ HandledIn(i)
    \/ \E s \in StoreSockets, id \in AnnotationIds :
          DeleteAnnotationFindById(s, id) /\ HandledAtOnce(DeleteRequest(s, id))
    \/ \E i \in Slots : DeleteAnnotationFindDocument(i) /\ HandledIn(i)
    \/ \E i \in Slots : DeleteAnnotationDeleteOne(i) /\ HandledIn(i)
    \/ \E i \in Slots : DeleteAnnotationBroadcast(i) /\ HandledIn(i)
    \/ \E i \in Slots : DeleteAnnotationError(i) /\ HandledIn(i)
    \/ \E s \in StoreJoiners, d \in StoreJoinInputs :
          JoinDocument(s, d) /\ lastEvent' = NoEvent /\ UNCHANGED clientVars
    \/ \E i \in Slots : JoinDocumentAccess(i) /\ HandledIn(i)
    \/ \E i \in Slots : JoinDocumentError(i) /\ HandledIn(i)

SpecStore == InitCreate /\ [][NextStore]_vars

----------------------------------------------------------------------------
(* Connections with good and bad credentials *)

AuthSockets == {"s1", "s3", "s4", "s5", "s6"}

\* socket.handshake.auth.token of each client: s1 holds a valid token of u1,
\* s3 sends none, s4 a malformed one, s5 an expired one of u2, s6 a valid one
\* of an account (u4) that has been deleted.
Handshake ==
    [s \in AuthSockets |->
        CASE s = "s1" -> [kind |-> "valid", userId |-> "u1"]
          [] s = "s3" -> [kind |-> "missing", userId |-> "u1"]
          [] s = "s4" -> [kind |-> "malformed", userId |-> "u1"]
          [] s = "s5" -> [kind |-> "expired", userId |-> "u2"]
          [] OTHER -> [kind |-> "valid", userId |-> "u4"]]

AuthCreateInputs ==
    {[documentId |-> "d1", startOffset |-> 0, endOffset |-> 1, comment |-> "a"]}

\* What a client may send: the events the server has handlers for.
ClientEvents(s) ==
    {[op |-> "join-document", sock |-> s, user |-> socketUser[s], pc |-> "dropped",
      documentId |-> "d1"],
     [op |-> "leave-document", sock |-> s, user |-> socketUser[s], pc |-> "dropped",
      documentId |-> "d1"],
     [op |-> "create-annotation", sock |-> s, user |-> socketUser[s], pc |-> "dropped",
      documentId |-> "d1"]}

\* Nobody has connected yet.
InitAuth ==
    /\ documents = InitDocuments
    /\ annotations = {}
    /\ nextId = 1
    /\ socketUser = [s \in AuthSockets |-> Unauthenticated]
    /\ connected = {}
    /\ rooms = [s \in AuthSockets |-> {}]
    /\ documentUsers = << >>
    /\ handlers = [i \in Slots |-> Idle]
    /\ lastEvent = NoEvent
    /\ emitted = {}
    /\ ClientAbsent

NextAuth ==
    \/ \E s \in AuthSockets :
          Connection(s, Handshake[s]) /\ lastEvent' = NoEvent /\ UNCHANGED clientVars
    \/ \E i \in Slots : ConnectionAuthenticated(i) /\ HandledIn(i)
    \/ \E s \in AuthSockets : \E e \in ClientEvents(s) :
          Unhandled(s) /\ lastEvent' = e /\ UNCHANGED clientVars
    \/ \E s \in AuthSockets :
          /\ Registered(s) /\ JoinDocument(s, "d1")
          /\ lastEvent' = NoEvent /\ UNCHANGED clientVars
    \/ \E i \in Slots : JoinDocumentAccess(i) /\ HandledIn(i)
    \/ \E s \in AuthSockets :
          Registered(s) /\ LeaveDocument(s, "d1") /\ HandledAtOnce(LeaveRequest(s, "d1"))
    \/ \E s \in AuthSockets, p \in AuthCreateInputs :
          Registered(s) /\ CreateAnnotationAccess(s, p) /\ HandledAtOnce(CreateRequest(s, p))
    \/ \E i \in Slots : CreateAnnotationFindOne(i) /\ HandledIn(i)
    \/ \E i \in Slots : CreateAnnotationSave(i) /\ HandledIn(i)
    \/ \E i \in Slots : CreateAnnotationInsert(i) /\ HandledIn(i)
    \/ \E i \in Slots : CreateAnnotationBroadcast(i) /\ HandledIn(i)

SpecAuth == InitAuth /\ [][NextAuth]_vars

----------------------------------------------------------------------------
(* A document deleted while its annotations are created, updated, deleted *)

\* s2 (u2, collaborator of d1) annotates d1; u1, its owner, deletes it.
DocumentWriters == {"s2"}
DocumentOwners == {"u1"}
DocumentInputs == {"d1"}

DocumentUpdateInputs ==
    {p \in UpdateInputs : p.hasComment /\ p.comment = "b"}

NextDocument ==
    \/ \E s \in DocumentWriters, p \in AuthCreateInputs :
          CreateAnnotationAccess(s, p) /\ HandledAtOnce(CreateRequest(s, p))
    \/ \E i \in Slots : CreateAnnotationFindOne(i) /\ HandledIn(i)
    \/ \E i \in Slots : CreateAnnotationSave(i) /\ HandledIn(i)
    \/ \E i \in Slots : CreateAnnotationInsert(i) /\ HandledIn(i)
    \/ \E i \in Slots : CreateAnnotationBroadcast(i) /\ HandledIn(i)
    \/ \E s \in DocumentWriters, p \in DocumentUpdateInputs :
          UpdateAnnotationFindById(s, p) /\ HandledAtOnce(UpdateRequest(s, p))
    \/ \E i \in Slots : UpdateAnnotationSave(i) /\ HandledIn(i)
    \/ \E i \in Slots : UpdateAnnotationBroadcast(i) /\ HandledIn(i)
    \/ \E s \in DocumentWriters, id \in AnnotationIds :
          DeleteAnnotationFindById(s, id) /\ HandledAtOnce(DeleteRequest(s, id))
    \/ \E i \in Slots : DeleteAnnotationFindDocument(i) /\ HandledIn(i)
    \/ \E i \in Slots : DeleteAnnotationDeleteOne(i) /\ HandledIn(i)
    \/ \E i \in Slots : DeleteAnnotationBroadcast(i) /\ HandledIn(i)
    \/ \E u \in DocumentOwners, d \in DocumentInputs :
          DeleteDocumentFindById(u, d) /\ HandledAtOnce(DeleteDocumentRequest(u, d))
    \/ \E i \in Slots : DeleteDocumentDeleteMany(i) /\ HandledIn(i)
    \/ \E i \in Slots : DeleteDocumentUnlink(i) /\ HandledIn(i)
    \/ \E i \in Slots : DeleteDocumentDeleteOne(i) /\ HandledIn(i)

SpecDocument == InitCreate /\ [][NextDocument]_vars

----------------------------------------------------------------------------
(* Connections closing while annotation handlers are in flight *)

\* s2 writes; s1 and s2, both in the room of d1, may close at any moment.
ClosingSockets == {"s1", "s2"}

NextClosing ==
    \/ \E s \in DocumentWriters, p \in AuthCreateInputs :
          CreateAnnotationAccess(s, p) /\ HandledAtOnce(CreateRequest(s, p))
    \/ \E i \in Slots : CreateAnnotationFindOne(i) /\ HandledIn(i)
    \/ \E i \in Slots : CreateAnnotationSave(i) /\ HandledIn(i)
    \/ \E i \in Slots : CreateAnnotationInsert(i) /\ HandledIn(i)
    \/ \E i \in Slots : CreateAnnotationBroadcast(i) /\ HandledIn(i)
    \/ \E s \in DocumentWriters, p \in DocumentUpdateInputs :
          UpdateAnnotationFindById(s, p) /\ HandledAtOnce(UpdateRequest(s, p))
    \/ \E i \in Slots : UpdateAnnotationSave(i) /\ HandledIn(i)
    \/ \E i \in Slots : UpdateAnnotationBroadcast(i) /\ HandledIn(i)
    \/ \E s \in DocumentWriters, id \in AnnotationIds :
          DeleteAnnotationFindById(s, id) /\ HandledAtOnce(DeleteRequest(s, id))
    \/ \E i \in Slots : DeleteAnnotationFindDocument(i) /\ HandledIn(i)
    \/ \E i \in Slots : DeleteAnnotationDeleteOne(i) /\ HandledIn(i)
    \/ \E i \in Slots : DeleteAnnotationBroadcast(i) /\ HandledIn(i)
    \/ \E s \in ClosingSockets : Disconnect(s) /\ HandledAtOnce(DisconnectRequest(s))

SpecClosing == InitCreate /\ [][NextClosing]_vars

----------------------------------------------------------------------------
(* Updates and deletions by connections that are in another room *)

\* s1 (owner of d1) and s3 are in the room of d1, s2 (owner of d2, creator
\* of the annotation on d1) is in the room of d2; both annotations are stored.
InitElsewhere ==
    /\ documents = InitDocuments
    /\ annotations = StoredAnnotations
    /\ nextId = Cardinality(StoredAnnotations) + 1
    /\ socketUser = OneSocketEach
    /\ connected = Sockets
    /\ rooms = [s \in Sockets |-> IF s = "s2" THEN {"d2"} ELSE {"d1"}]
    /\ documentUsers = [d \in {"d1", "d2"} |->
                           IF d = "d1" THEN [u \in {"u1", "u3"} |->
                                                IF u = "u1" THEN "s1" ELSE "s3"]
                                       ELSE [u \in {"u2"} |-> "s2"]]
    /\ handlers = [i \in Slots |-> Idle]
    /\ lastEvent = NoEvent
    /\ emitted = {}
    /\ ClientAbsent

NextElsewhere ==
    \/ \E s \in Sockets, p \in DocumentUpdateInputs :
          UpdateAnnotationFindById(s, p) /\ HandledAtOnce(UpdateRequest(s, p))
    \/ \E i \in Slots : UpdateAnnotationSave(i) /\ HandledIn(i)
    \/ \E i \in Slots : UpdateAnnotationBroadcast(i) /\ HandledIn(i)
    \/ \E s \in Sockets, id \in AnnotationIds :
          DeleteAnnotationFindById(s, id) /\ HandledAtOnce(DeleteRequest(s, id))
    \/ \E i \in Slots : DeleteAnnotationFindDocument(i) /\ HandledIn(i)
    \/ \E i \in Slots : DeleteAnnotationDeleteOne(i) /\ HandledIn(i)
    \/ \E i \in Slots : DeleteAnnotationBroadcast(i) /\ HandledIn(i)

SpecElsewhere == InitElsewhere /\ [][NextElsewhere]_vars

----------------------------------------------------------------------------
(* Concurrent updates of one annotation by its creator *)

\* s2 is the connection of u2, the creator of the stored annotation.
RaceSockets == {"s2"}

\* Payloads for the stored annotation: each carries either a comment (two
\* new ones, or the one the record was created with) or isResolved.
RaceInputs ==
    {[annId |-> a.id, hasComment |-> TRUE, comment |-> c,
      hasIsResolved |-> FALSE, isResolved |-> FALSE] :
        a \in {x \in StoredAnnotations : x.id = 1}, c \in {"a", "b", "c"}}
    \cup {[annId |-> a.id, hasComment |-> FALSE, comment |-> "",
           hasIsResolved |-> TRUE, isResolved |-> r] :
        a \in {x \in StoredAnnotations : x.id = 1}, r \in BOOLEAN}

NextRace ==
    \/ \E s \in RaceSockets, p \in RaceInputs :
          UpdateAnnotationFindById(s, p) /\ HandledAtOnce(UpdateRequest(s, p))
    \/ \E i \in Slots : UpdateAnnotationSave(i) /\ HandledIn(i)
    \/ \E i \in Slots : UpdateAnnotationBroadcast(i) /\ HandledIn(i)

SpecRace == InitUpdate /\ [][NextRace]_vars

----------------------------------------------------------------------------
(* Annotation requests running to their end *)

\* The step of the handler in slot i once its pending store call returns
\* (the handler goes on) or fails (its catch runs).
HandlerStep(i) ==
    \/ CreateAnnotationFindOne(i) /\ HandledIn(i)
    \/ CreateAnnotationSave(i) /\ HandledIn(i)
    \/ CreateAnnotationInsert(i) /\ HandledIn(i)
    \/ CreateAnnotationBroadcast(i) /\ HandledIn(i)
    \/ CreateAnnotationError(i) /\ HandledIn(i)
    \/ UpdateAnnotationSave(i) /\ HandledIn(i)
    \/ UpdateAnnotationBroadcast(i) /\ HandledIn(i)
    \/ UpdateAnnotationError(i) /\ HandledIn(i)
    \/ DeleteAnnotationFindDocument(i) /\ HandledIn(i)
    \/ DeleteAnnotationDeleteOne(i) /\ HandledIn(i)
    \/ DeleteAnnotationBroadcast(i) /\ HandledIn(i)
    \/ DeleteAnnotationError(i) /\ HandledIn(i)

\* u2 on s2 creates on d1 and on the missing d3, then comments on and deletes
\* the first annotation.
OutcomeUpdateInputs ==
    {p \in UpdateInputs : p.annId = 1 /\ p.hasComment /\ p.comment = "b"}

NextOutcome ==
    \/ \E s \in StoreWriters, p \in StoreCreateInputs :
          CreateAnnotationAccess(s, p) /\ HandledAtOnce(CreateRequest(s, p))
    \/ \E s \in StoreWriters, p \in OutcomeUpdateInputs :
          UpdateAnnotationFindById(s, p) /\ HandledAtOnce(UpdateRequest(s, p))
    \/ \E s \in StoreWriters :
          DeleteAnnotationFindById(s, 1) /\ HandledAtOnce(DeleteRequest(s, 1))
    \/ \E i \in Slots : HandlerStep(i)

\* Every store call eventually returns or fails: a handler that awaits one
\* is eventually resumed.
SpecOutcome ==
    InitCreate /\ [][NextOutcome]_vars /\ \A i \in Slots : WF_vars(HandlerStep(i))

----------------------------------------------------------------------------
(* create-annotation with a payload that names an author *)

ForgingSockets == {"s2", "s3"}

\* Payloads on d1 that also carry userId, color and isResolved: those of u1.
ForgedInputs ==
    {[documentId |-> "d1", startOffset |-> 0, endOffset |-> e, comment |-> "a",
      userId |-> "u1", color |-> UserColor["u1"], isResolved |-> r] :
        e \in {1, 2}, r \in BOOLEAN}

NextForged ==
    \/ \E s \in ForgingSockets, p \in ForgedInputs :
          CreateAnnotationAccess(s, p) /\ HandledAtOnce(CreateRequest(s, p))
    \/ \E i \in Slots : CreateAnnotationFindOne(i) /\ HandledIn(i)
    \/ \E i \in Slots : CreateAnnotationSave(i) /\ HandledIn(i)
    \/ \E i \in Slots : CreateAnnotationInsert(i) /\ HandledIn(i)
    \/ \E i \in Slots : CreateAnnotationBroadcast(i) /\ HandledIn(i)

SpecForged == InitCreate /\ [][NextForged]_vars

----------------------------------------------------------------------------
(* The client's socket over connects, drops and reconnects *)

ClientDocuments == {"d1", "d2", "d3"}
DisconnectReasons == {"transport close", "io server disconnect"}

serverState == <<documents, annotations, nextId, socketUser, connected, rooms,
                 documentUsers, handlers, emitted>>

NextClient ==
    \/ ClientConnect /\ ClientDid("connect") /\ UNCHANGED <<serverState, hookVars>>
    \/ ClientOnConnect /\ ClientDid("on-connect") /\ UNCHANGED <<serverState, hookVars>>
    \/ \E reason \in DisconnectReasons :
          ClientOnDisconnect(reason) /\ ClientDid("on-disconnect")
          /\ UNCHANGED <<serverState, hookVars>>
    \/ ClientReconnectFailed /\ ClientDid("reconnect_failed")
          /\ UNCHANGED <<serverState, hookVars>>
    \/ ClientDisconnect /\ ClientDid("disconnect") /\ UNCHANGED <<serverState, hookVars>>
    \/ \E d \in ClientDocuments :
          ClientJoinDocument(d) /\ ClientDid("joinDocument")
          /\ UNCHANGED <<serverState, hookVars>>
    \/ \E d \in ClientDocuments :
          ClientLeaveDocument(d) /\ ClientDid("leaveDocument")
          /\ UNCHANGED <<serverState, hookVars>>

    \/ \E d \in ClientDocuments :
          ClientCreateAnnotation(d) /\ ClientDid("createAnnotation")
          /\ UNCHANGED <<serverState, hookVars>>

SpecClient == InitCreate /\ [][NextClient]_vars

----------------------------------------------------------------------------
(* A page opening on a document while its annotations change *)

PageWriters == {"s2"}
PageCreateInputs ==
    {[documentId |-> "d1", startOffset |-> 0, endOffset |-> 2, comment |-> "a"]}

\* The page's socket is connected and authenticated and in no room; s2 is in
\* the room of d1, where its annotation 1 is stored.
InitPage ==
    /\ documents = InitDocuments
    /\ annotations = {a \in StoredAnnotations : a.id = 1}
    /\ nextId = 2
    /\ socketUser = OneSocketEach
    /\ connected = Sockets
    /\ rooms = [s \in Sockets |-> CASE s = "s2" -> {"d1"} [] s = "s3" -> {"d2"}
                                    [] OTHER -> {}]
    /\ documentUsers = [d \in {"d1", "d2"} |->
                           IF d = "d1" THEN [u \in {"u2"} |-> "s2"]
                                       ELSE [u \in {"u3"} |-> "s3"]]
    /\ handlers = [i \in Slots |-> Idle]
    /\ lastEvent = NoEvent
    /\ emitted = {}
    /\ clientSocket = "open"
    /\ currentDocumentId = NoDocument
    /\ joined = {}
    /\ sent = << >>
    /\ outbox = << >>
    /\ inbox = << >>
    /\ response = NotAsked
    /\ clientAnnotations = {}

NextPage ==
    \/ UseAnnotationsMount /\ ClientDid("mount") /\ UNCHANGED serverState
    \/ JoinDocumentArrives
    \/ \E i \in Slots : JoinDocumentAccess(i) /\ DeliveredIn(i)
    \/ GetByDocument /\ UNCHANGED serverVars
    \/ LoadAnnotationsApply /\ UNCHANGED serverVars
    \/ ClientOnAnnotationEvent /\ UNCHANGED serverVars
    \/ \E s \in PageWriters, p \in PageCreateInputs :
          CreateAnnotationAccess(s, p) /\ DeliveredAtOnce(CreateRequest(s, p))
    \/ \E i \in Slots : CreateAnnotationFindOne(i) /\ DeliveredIn(i)
    \/ \E i \in Slots : CreateAnnotationSave(i) /\ DeliveredIn(i)
    \/ \E i \in Slots : CreateAnnotationInsert(i) /\ DeliveredIn(i)
    \/ \E i \in Slots : CreateAnnotationBroadcast(i) /\ DeliveredIn(i)
    \/ \E s \in PageWriters, id \in AnnotationIds :
          DeleteAnnotationFindById(s, id) /\ DeliveredAtOnce(DeleteRequest(s, id))
    \/ \E i \in Slots : DeleteAnnotationFindDocument(i) /\ DeliveredIn(i)
    \/ \E i \in Slots : DeleteAnnotationDeleteOne(i) /\ DeliveredIn(i)
    \/ \E i \in Slots : DeleteAnnotationBroadcast(i) /\ DeliveredIn(i)

SpecPage == InitPage /\ [][NextPage]_vars

----------------------------------------------------------------------------
(* Listing the annotations of a document *)

ListedIds == 1 .. MaxListed
ListDocs == {"d1", "d2"}
ListOffsets == {0, 1}
ListTimes == {1, 2}
ListPages == {1, 2}
ListLimits == {1, 2}
ListUsers == {"u1"}
ListRequested == {"d1", "d2", "d3"}

\* A store of MaxListed annotations of u3, each on any of the documents, at
\* any of the offsets and created at any of the times; their ranges end at
\* different offsets, so no two have the same key.
ListedStores ==
    {{NewAnnotation(id, f[id][1], "u3", f[id][2], f[id][2] + id, "a", UserColor["u3"])
        @@ [createdAt |-> f[id][3]] : id \in ListedIds} :
      f \in [ListedIds -> ListDocs \X ListOffsets \X ListTimes]}

InitList ==
    /\ documents = InitDocuments
    /\ annotations \in ListedStores
    /\ nextId = MaxListed + 1
    /\ socketUser = OneSocketEach
    /\ connected = {}
    /\ rooms = [s \in Sockets |-> {}]
    /\ documentUsers = << >>
    /\ handlers = [i \in Slots |-> Idle]
    /\ lastEvent = NoEvent
    /\ emitted = {}
    /\ ClientAbsent

NextList ==
    \E u \in ListUsers, d \in ListRequested, page \in ListPages, limit \in ListLimits :
       GetAnnotations(u, d, page, limit)
       /\ HandledAtOnce(ListRequest(u, d, page, limit))

SpecList == InitList /\ [][NextList]_vars

----------------------------------------------------------------------------
(* Asking for the annotations that overlap a range *)

\* The ranges a caller asks about: those an annotation can have.
QueryOffsets == 0 .. MaxListed
QueryRanges == {r \in QueryOffsets \X QueryOffsets : r[1] < r[2]}

NextOverlap ==
    \E d \in ListDocs, r \in QueryRanges :
       FindOverlapping(d, r[1], r[2])
       /\ HandledAtOnce(OverlapRequest(d, r[1], r[2]))

SpecOverlap == InitList /\ [][NextOverlap]_vars

----------------------------------------------------------------------------
(* Access checks over any documents collection *)

\* The document ids a socket client sends: two that may be stored, one that
\* never is, and one that is not an ObjectId.
AccessInputs == {"d1", "d2", "d3", "x"}

\* Every collection of documents d1 and d2, each absent or with any owner
\* and any collaborators.
AccessDocuments ==
    UNION {[ids -> [owner : Users, collaborators : SUBSET Users]] :
             ids \in SUBSET {"d1", "d2"}}

InitAccess ==
    /\ documents \in AccessDocuments
    /\ annotations = {}
    /\ nextId = 1
    /\ socketUser = OneSocketEach
    /\ connected = {}
    /\ rooms = [s \in Sockets |-> {}]
    /\ documentUsers = << >>
    /\ handlers = [i \in Slots |-> Idle]
    /\ lastEvent = NoEvent
    /\ emitted = {}
    /\ ClientAbsent

NextAccess ==
    \E u \in Users, d \in AccessInputs :
       HasDocumentAccessCall(u, d) /\ HandledAtOnce(AccessRequest(u, d))

SpecAccess == InitAccess /\ [][NextAccess]_vars

----------------------------------------------------------------------------
(* Presence: several connections, two of them of the same user *)

\* s1 is a connection of u1; s2 and s3 are two connections of u2.
TwoSocketsOfOneUser == [s \in Sockets |-> IF s = "s1" THEN "u1" ELSE "u2"]

\* d1 is owned by u1 and shared with u2, d2 is owned by u2 and shared with
\* u1, d3 belongs to u3 alone; there is no document d4.
RoomDocuments ==
    [d \in {"d1", "d2", "d3"} |->
        CASE d = "d1" -> [owner |-> "u1", collaborators |-> {"u2"}]
          [] d = "d2" -> [owner |-> "u2", collaborators |-> {"u1"}]
          [] OTHER -> [owner |-> "u3", collaborators |-> {}]]

\* The documents each connection asks to join: s1 also asks for the closed d3
\* and the missing d4; s3 only ever opens d1.
JoinInputs(s) ==
    CASE s = "s1" -> {"d1", "d2", "d3", "d4"}
      [] s = "s2" -> {"d1", "d2"}
      [] OTHER -> {"d1"}
LeaveInputs == {"d1", "d2"}

\* The sockets have connected and authenticated; nobody has joined anything.
InitRoom ==
    /\ documents = RoomDocuments
    /\ annotations = {}
    /\ nextId = 1
    /\ socketUser = TwoSocketsOfOneUser
    /\ connected = Sockets
    /\ rooms = [s \in Sockets |-> {}]
    /\ documentUsers = << >>
    /\ handlers = [i \in Slots |-> Idle]
    /\ lastEvent = NoEvent
    /\ emitted = {}
    /\ ClientAbsent

NextRoom ==
    \/ \E s \in Sockets : \E d \in JoinInputs(s) :
          JoinDocument(s, d) /\ lastEvent' = NoEvent /\ UNCHANGED clientVars
    \/ \E i \in Slots : JoinDocumentAccess(i) /\ HandledIn(i)
    \/ \E s \in Sockets, d \in LeaveInputs :
          LeaveDocument(s, d) /\ HandledAtOnce(LeaveRequest(s, d))
    \/ \E s \in Sockets : Disconnect(s) /\ HandledAtOnce(DisconnectRequest(s))

SpecRoom == InitRoom /\ [][NextRoom]_vars

----------------------------------------------------------------------------
(* Properties of concurrent creation (SpecCreate) *)

SameKey(a, b) ==
    /\ a.documentId = b.documentId
    /\ a.userId = b.userId
    /\ a.startOffset = b.startOffset
    /\ a.endOffset = b.endOffset

\* The stored annotations of user u on document d at exactly (s, e).
StoredAt(d, u, s, e) ==
    {a \in annotations : /\ a.documentId = d /\ a.userId = u
                         /\ a.startOffset = s /\ a.endOffset = e}

\* C1: in every reachable state of the store, whatever the interleaving of
\* socket and REST create handlers, at most one annotation exists for each
\* (documentId, userId, startOffset, endOffset).
C1_UniquePerKey ==
    \A a \in annotations : \A b \in annotations : SameKey(a, b) => a = b

\* C1 witness: a create handler has passed both application-level checks and
\* is about to insert a key that another request has stored meanwhile.
C1_Witness ==
    /\ annotations # {}
    /\ \E i \in Slots :
          /\ handlers[i].op \in {"create-annotation", "rest-create"}
          /\ handlers[i].pc = "insert"
          /\ StoredAt(handlers[i].documentId, handlers[i].user,
                      handlers[i].startOffset, handlers[i].endOffset) # {}

\* C2 (as claimed): of concurrent create-annotation requests with the same
\* key only one is stored, every other one is answered 'Duplicate annotation',
\* and annotation-created is emitted for the stored record only.
C2_ConcurrentDuplicateAnswered ==
    /\ C1_UniquePerKey
    /\ \A m \in emitted :
          m.event = "annotation-created" => m.annotation \in annotations
    /\ ( /\ lastEvent.op = "create-annotation"
         /\ ValidAnnotation(lastEvent.startOffset, lastEvent.endOffset, lastEvent.comment)
         /\ HasDocumentAccess(lastEvent.user, lastEvent.documentId)
         /\ lastEvent.annId = 0 )
       => /\ StoredAt(lastEvent.documentId, lastEvent.user,
                     lastEvent.startOffset, lastEvent.endOffset) # {}
          /\ emitted = {[to |-> lastEvent.sock, event |-> "error",
                         message |-> "Duplicate annotation"]}

\* C3: when the requester's annotation on exactly this range is stored at the
\* time the handler's duplicate check runs, the request ends there: the
\* requester alone gets 'Duplicate annotation', nothing is broadcast and the
\* store still holds exactly one record for the key.
C3_DuplicateRejected ==
    [][\A i \in Slots :
          ( /\ handlers[i].op = "create-annotation"
            /\ handlers[i].pc = "findOne"
            /\ handlers'[i] # handlers[i]
            /\ StoredAt(handlers[i].documentId, handlers[i].user,
                        handlers[i].startOffset, handlers[i].endOffset) # {} )
          => /\ handlers'[i] = Idle
             /\ emitted' = {[to |-> handlers[i].sock, event |-> "error",
                             message |-> "Duplicate annotation"]}
             /\ annotations' = annotations
             /\ Cardinality(StoredAt(handlers[i].documentId, handlers[i].user,
                                     handlers[i].startOffset,
                                     handlers[i].endOffset)) = 1]_vars

\* C3 witness: a create-annotation has just been answered 'Duplicate
\* annotation' and one record with its key is stored.
C3_Witness ==
    /\ lastEvent.op = "create-annotation"
    /\ emitted = {[to |-> lastEvent.sock, event |-> "error",
                   message |-> "Duplicate annotation"]}
    /\ Cardinality(StoredAt(lastEvent.documentId, lastEvent.user,
                            lastEvent.startOffset, lastEvent.endOffset)) = 1

BadOffsets(startOffset, endOffset) == ~ (endOffset > startOffset /\ startOffset >= 0)

\* C4: every stored annotation has endOffset > startOffset >= 0; a
\* create-annotation with other offsets never reaches the insert, and it ends
\* with one error message to the requester and no other message.
C4_OffsetsValidated ==
    /\ \A a \in annotations : a.endOffset > a.startOffset /\ a.startOffset >= 0
    /\ \A i \in Slots :
          ( /\ handlers[i].op = "create-annotation"
            /\ BadOffsets(handlers[i].startOffset, handlers[i].endOffset) )
          => handlers[i].pc \in {"findOne", "save"}
    /\ ( /\ lastEvent.op = "create-annotation"
         /\ BadOffsets(lastEvent.startOffset, lastEvent.endOffset) )
       => /\ lastEvent.annId = 0
          /\ \E text \in {"Access denied", "Failed to create annotation"} :
                emitted = {[to |-> lastEvent.sock, event |-> "error", message |-> text]}

\* C4 witness: a create-annotation with bad offsets by a user with access
\* has just been refused, while the store holds an annotation.
C4_Witness ==
    /\ lastEvent.op = "create-annotation"
    /\ BadOffsets(lastEvent.startOffset, lastEvent.endOffset)
    /\ HasDocumentAccess(lastEvent.user, lastEvent.documentId)
    /\ emitted = {[to |-> lastEvent.sock, event |-> "error",
                   message |-> "Failed to create annotation"]}
    /\ annotations # {}

----------------------------------------------------------------------------
(* Properties of deletion (SpecDelete) and update (SpecUpdate) *)

\* The messages em are an error answer to the requester of req and nothing else.
ErrorToRequesterOnly(req, em) ==
    /\ em # {}
    /\ \A m \in em :
          /\ m.to = req.sock
          /\ \/ m.event = "error"
             \/ (m.event = "response" /\ m.user = req.user /\ m.status >= 400)

OwnerOf(documentId, userId) ==
    documentId \in DOMAIN documents /\ documents[documentId].owner = userId

DeleteOps == {"delete-annotation", "rest-delete"}
UpdateOps == {"update-annotation", "rest-update"}

\* C9: a delete request (socket or REST) goes through iff the requester is
\* the annotation's creator or the owner of the annotation's document. A
\* requester who is neither gets an error, the store is left as it is and
\* nothing is broadcast; for creator and owner the record is removed, and
\* annotation-deleted is emitted only for a record so removed.
C9_DeleteAuthorized ==
    [][ /\ \A i \in Slots :
              ( /\ handlers[i].op \in DeleteOps
                /\ handlers[i].pc = "findDocument"
                /\ handlers'[i] # handlers[i] )
              => IF \/ handlers[i].doc.userId = handlers[i].user
                    \/ OwnerOf(handlers[i].doc.documentId, handlers[i].user)
                 THEN /\ handlers'[i] # Idle
                      /\ handlers'[i].pc = "deleteOne"
                 ELSE /\ handlers'[i] = Idle
                      /\ annotations' = annotations
                      /\ ErrorToRequesterOnly(handlers[i], emitted')
        /\ \A i \in Slots :
              ( /\ handlers[i].op \in DeleteOps
                /\ handlers[i].pc = "deleteOne"
                /\ handlers'[i] # handlers[i] )
              => \A a \in annotations' : a.id # handlers[i].annId
        /\ \A a \in annotations \ annotations' :
              \E i \in Slots :
                 /\ handlers[i].op \in DeleteOps
                 /\ handlers[i].annId = a.id
                 /\ handlers'[i] # handlers[i]
                 /\ (a.userId = handlers[i].user \/ OwnerOf(a.documentId, handlers[i].user))
        /\ \A m \in emitted' :
              m.event = "annotation-deleted"
              => /\ \A a \in annotations' : a.id # m.annotationId
                 /\ \E i \in Slots :
                       /\ handlers[i].op = "delete-annotation"
                       /\ handlers[i].annId = m.annotationId
                       /\ handlers'[i] = Idle
                       /\ \/ handlers[i].doc.userId = handlers[i].user
                          \/ OwnerOf(m.documentId, handlers[i].user)
      ]_vars

\* C9 witness: the document's owner, who is not the creator, has deleted an
\* annotation and the deletion has been broadcast.
C9_Witness ==
    /\ lastEvent.op = "delete-annotation"
    /\ "doc" \in DOMAIN lastEvent
    /\ lastEvent.doc.userId # lastEvent.user
    /\ OwnerOf(lastEvent.doc.documentId, lastEvent.user)
    /\ \A a \in annotations : a.id # lastEvent.annId
    /\ \E m \in emitted : m.event = "annotation-deleted" /\ m.annotationId = lastEvent.annId

\* C10: an update request (socket or REST) by anyone but the annotation's
\* creator, the document's owner included, ends with an error to the requester
\* only and leaves the store as it is; a stored annotation changes only in a
\* step of its creator's update, and annotation-updated is emitted only by
\* the creator's update.
C10_OnlyCreatorUpdates ==
    [][ /\ \A a \in annotations :
              ( /\ lastEvent'.op \in UpdateOps
                /\ "doc" \notin DOMAIN lastEvent'
                /\ lastEvent'.annId = a.id
                /\ lastEvent'.user # a.userId )
              => /\ annotations' = annotations
                 /\ handlers' = handlers
                 /\ ErrorToRequesterOnly(lastEvent', emitted')
        /\ \A a \in annotations : \A b \in annotations' :
              (a.id = b.id /\ a # b)
              => \E i \in Slots :
                    /\ handlers[i].op \in UpdateOps
                    /\ handlers[i].user = a.userId
                    /\ handlers'[i] # handlers[i]
        /\ \A m \in emitted' :
              m.event = "annotation-updated"
              => \E i \in Slots :
                    /\ handlers[i].op = "update-annotation"
                    /\ handlers[i].user = m.annotation.userId
                    /\ handlers'[i] = Idle
      ]_vars

\* C10 witness: the owner of the document, who did not create the annotation,
\* has just been refused an update-annotation; the record is as created.
C10_Witness ==
    /\ lastEvent.op = "update-annotation"
    /\ "doc" \notin DOMAIN lastEvent
    /\ \E a \in annotations :
          /\ a.id = lastEvent.annId
          /\ a.userId # lastEvent.user
          /\ OwnerOf(a.documentId, lastEvent.user)
          /\ a \in StoredAnnotations
    /\ emitted = {[to |-> lastEvent.sock, event |-> "error",
                   message |-> "Cannot update others annotations"]}

----------------------------------------------------------------------------
(* Properties of rooms and presence (SpecRoom) *)

\* The step ends the join-document handler of slot i.
JoinEnds(i) ==
    /\ handlers[i].op = "join-document"
    /\ handlers'[i] # handlers[i]

AccessDenied(s) == [to |-> s, event |-> "error", message |-> "Access denied to document"]

C6_SwitchRooms ==
    [][ \A i \in Slots : \A A \in DOMAIN documents :
           ( /\ JoinEnds(i)
             /\ handlers[i].sock \in connected
             /\ HasDocumentAccess(handlers[i].user, handlers[i].documentId)
             /\ rooms[handlers[i].sock] = {A}
             /\ A # handlers[i].documentId )
           => LET s == handlers[i].sock
                  u == handlers[i].user
                  B == handlers[i].documentId
              IN  /\ \A t \in connected \ {s} :
                        (A \in rooms[t] /\ socketUser[t] # u)
                        => ([to |-> t] @@ UserLeft(u, A)) \in emitted'
                  /\ \A t \in connected \ {s} :
                        B \in rooms[t] => ([to |-> t] @@ UserJoined(u, B)) \in emitted'
                  /\ {m \in emitted' : m.to = s /\ m.event = "active-users"}
                        = {[to |-> s] @@ ActiveUsers(GetActiveUsers(documentUsers', B), B)}
                  /\ rooms'[s] = {B}
                  /\ B \in DOMAIN documentUsers' /\ u \in DOMAIN documentUsers'[B]
                  /\ A \in DOMAIN documentUsers' => u \notin DOMAIN documentUsers'[A]
      ]_vars

\* C7: every connected socket is in at most one document room.
C7_AtMostOneRoom ==
    \A s \in connected : Cardinality(rooms[s]) <= 1

\* C7 witness: a connection that had two joins in flight for different
\* documents has completed one of them and is in that room, with the other
\* join still awaiting its access check.
C7_Witness ==
    /\ lastEvent.op = "join-document"
    /\ lastEvent.sock \in connected
    /\ rooms[lastEvent.sock] = {lastEvent.documentId}
    /\ \E i \in Slots :
          /\ handlers[i].op = "join-document"
          /\ handlers[i].sock = lastEvent.sock
          /\ handlers[i].documentId # lastEvent.documentId
          /\ HasDocumentAccess(handlers[i].user, handlers[i].documentId)

\* C8: when a connection that is in room D disconnects, every live connection
\* of another user remaining in room D gets user-left for the disconnected
\* user (the user's own other connections are not even counted), and the
\* registry no longer has that user under D.
C8_DisconnectNotifies ==
    [][ \A s \in connected : \A D \in rooms[s] :
           s \notin connected'
           => /\ \A t \in connected' :
                    (D \in rooms[t] /\ socketUser[t] # socketUser[s])
                    => ([to |-> t] @@ UserLeft(socketUser[s], D)) \in emitted'
              /\ D \in DOMAIN documentUsers' => socketUser[s] \notin DOMAIN documentUsers'[D]
      ]_vars

----------------------------------------------------------------------------
(* Properties of a successful creation (SpecCreate) *)

\* The stored records that carry what handler h submitted.
Submitted(h, store) ==
    {a \in store : /\ a.documentId = h.documentId
                   /\ a.userId = h.user
                   /\ a.startOffset = h.startOffset
                   /\ a.endOffset = h.endOffset
                   /\ a.comment = h.comment
                   /\ a.isResolved = FALSE}

----------------------------------------------------------------------------
(* Properties of the annotation events together (SpecStore) *)

Broadcasts == {"annotation-created", "annotation-updated", "annotation-deleted"}

FailedMessage(op) ==
    CASE op = "create-annotation" -> "Failed to create annotation"
      [] op = "update-annotation" -> "Failed to update annotation"
      [] OTHER -> "Failed to delete annotation"

AnnotationOps == {"create-annotation", "update-annotation", "delete-annotation"}

\* C13: when a store call of a create-, update- or delete-annotation handler
\* fails, the handler ends there, the only message emitted is one error to
\* the requester (so no broadcast for the request, then or later), and the
\* presence registry, the rooms and the connections are as before.
C13_StoreFailure ==
    [][ \A i \in Slots :
           ( /\ handlers[i].op \in AnnotationOps
             /\ handlers'[i] # handlers[i]
             /\ \E m \in emitted' :
                   m.event = "error" /\ m.message = FailedMessage(handlers[i].op) )
           => /\ handlers'[i] = Idle
              /\ emitted' = {[to |-> handlers[i].sock, event |-> "error",
                              message |-> FailedMessage(handlers[i].op)]}
              /\ documentUsers' = documentUsers
              /\ rooms' = rooms
              /\ connected' = connected
      ]_vars

\* C13 witness: populate failed after the insert of a create-annotation; the
\* requester has the error and nothing was broadcast.
C13_Witness ==
    /\ lastEvent.op = "create-annotation"
    /\ lastEvent.annId # 0
    /\ emitted = {[to |-> lastEvent.sock, event |-> "error",
                   message |-> "Failed to create annotation"]}

\* C14: a join-document, create-, update- or delete-annotation that fails
\* (access denied, not found, forbidden, duplicate, validation, store
\* failure) ends with one error message to the connection it came from and
\* no message to anyone else; the registry and the rooms are as before and
\* the connection is still open. A request never ends without any message.
C14_ErrorsToOriginatorOnly ==
    [][ /\ (\E m \in emitted' : m.event = "error")
           => /\ lastEvent' # NoEvent
              /\ \E m \in emitted' :
                    /\ m.event = "error"
                    /\ emitted' = {[to |-> lastEvent'.sock, event |-> "error",
                                    message |-> m.message]}
              /\ documentUsers' = documentUsers
              /\ rooms' = rooms
              /\ connected' = connected
              /\ lastEvent'.sock \in connected'
        /\ lastEvent' # NoEvent => emitted' # {}
      ]_vars

\* C14 witness: s1, who did not create the annotation, has just been refused
\* an update while s2 is in the same room; only s1 got a message.
C14_Witness ==
    /\ lastEvent.op = "update-annotation"
    /\ \E a \in annotations : a.id = lastEvent.annId /\ a.userId # lastEvent.user
    /\ \E t \in connected \ {lastEvent.sock} : rooms[t] = rooms[lastEvent.sock]
    /\ rooms[lastEvent.sock] # {}
    /\ emitted = {[to |-> lastEvent.sock, event |-> "error",
                   message |-> "Cannot update others annotations"]}

----------------------------------------------------------------------------
(* Properties of authentication (SpecAuth) *)

\* The credential of s is missing, malformed, expired or names no account.
BadCredential(s) ==
    \/ Handshake[s].kind \in {"missing", "malformed", "expired"}
    \/ Handshake[s].userId \notin Users

\* C15: a connection with a bad credential never gets a user; once
\* authentication has answered it is disconnected; it is in no room and in no
\* registry entry, no request handler ever runs for it (its events are
\* dropped), and the only message it is ever sent is the authentication
\* error.
C15_RejectedNeverServed ==
    \A s \in AuthSockets :
       BadCredential(s)
       => /\ socketUser[s] \in {Unauthenticated, NoUser}
          /\ socketUser[s] = NoUser => s \notin connected
          /\ rooms[s] = {}
          /\ \A d \in DOMAIN documentUsers : \A u \in DOMAIN documentUsers[d] :
                documentUsers[d][u] # s
          /\ \A i \in Slots :
                (handlers[i] # Idle /\ handlers[i].sock = s) => handlers[i].op = "connection"
          /\ (lastEvent # NoEvent /\ lastEvent.sock = s)
                => (lastEvent.op = "connection" \/ lastEvent.pc = "dropped")
          /\ \A m \in emitted :
                m.to = s => (m.event = "error" /\ m.message = "Authentication required")

\* C15 witness: the connection whose token names a deleted account has just
\* been refused and closed, while a well-authenticated connection is in a room.
C15_Witness ==
    /\ lastEvent.op = "connection"
    /\ lastEvent.sock = "s6"
    /\ BadCredential(lastEvent.sock)
    /\ socketUser[lastEvent.sock] = NoUser
    /\ lastEvent.sock \notin connected
    /\ emitted = {[to |-> lastEvent.sock, event |-> "error",
                   message |-> "Authentication required"]}
    /\ \E t \in connected : rooms[t] # {}

----------------------------------------------------------------------------
(* More properties of rooms and presence (SpecRoom) *)

\* C16: a leave-document for a document whose room the connection is not in
\* changes neither the registry nor any connection's rooms and emits nothing
\* (stated for a user that has no registry entry under that document, where
\* no other connection of the user is involved).
C16_LeaveNotInRoom ==
    [][ ( /\ lastEvent'.op = "leave-document"
          /\ lastEvent'.documentId \notin rooms[lastEvent'.sock]
          /\ \/ lastEvent'.documentId \notin DOMAIN documentUsers
             \/ lastEvent'.user \notin DOMAIN documentUsers[lastEvent'.documentId] )
        => /\ documentUsers' = documentUsers
           /\ rooms' = rooms
           /\ emitted' = {}
      ]_vars

----------------------------------------------------------------------------
(* Properties of annotations of a document being deleted (SpecDocument) *)

\* C17: an update-annotation is let through to its save, and a
\* delete-annotation to its deleteOne, only for a requester who at that
\* moment has access (owner or collaborator of an existing document) to the
\* document the annotation is stored under; without access the request is
\* refused and the store is not touched.
C17_AccessRechecked ==
    [][ \A i \in Slots :
           /\ ( /\ handlers[i] = Idle
                /\ handlers'[i] # Idle
                /\ handlers'[i].op = "update-annotation" )
              => HasDocumentAccess(handlers'[i].user, handlers'[i].doc.documentId)
           /\ ( /\ handlers[i].op = "delete-annotation"
                /\ handlers[i].pc = "findDocument"
                /\ handlers'[i] # Idle
                /\ handlers'[i].pc = "deleteOne" )
              => HasDocumentAccess(handlers[i].user, handlers[i].doc.documentId)
      ]_vars

\* C20: a create-annotation with valid offsets and comment by a user with
\* access to the document is refused only when that user's annotation on
\* exactly the same range of the document is stored; annotations that
\* overlap or contain the range, and other users' annotations on the
\* identical range, never refuse it.
C20_OverlapNeverRejects ==
    ( /\ lastEvent.op = "create-annotation"
      /\ ValidAnnotation(lastEvent.startOffset, lastEvent.endOffset, lastEvent.comment)
      /\ HasDocumentAccess(lastEvent.user, lastEvent.documentId)
      /\ \A b \in StoredAt(lastEvent.documentId, lastEvent.user,
                           lastEvent.startOffset, lastEvent.endOffset) :
            b.id = lastEvent.annId )
    => \E a \in annotations :
          /\ a.id = lastEvent.annId
          /\ \E m \in emitted : m.event = "annotation-created" /\ m.annotation = a

\* C20 witness: a create-annotation has just succeeded on a range on which
\* another user's annotation is stored.
C20_Witness ==
    /\ lastEvent.op = "create-annotation"
    /\ \E a, b \in annotations :
          /\ a.id = lastEvent.annId
          /\ b.userId # a.userId
          /\ b.id < a.id
          /\ b.documentId = a.documentId
          /\ b.startOffset = a.startOffset
          /\ b.endOffset = a.endOffset
    /\ \E m \in emitted : m.event = "annotation-created"

----------------------------------------------------------------------------
(* Properties of listing (SpecList) *)

\* The list responses of the last step.
Listed == {m \in emitted : m.event = "response" /\ m.status = 200}

\* seq is in startOffset order, and among equal startOffset newest first.
InListOrder(seq) ==
    \A i, j \in 1 .. Len(seq) :
       i < j => \/ seq[i].startOffset < seq[j].startOffset
                \/ /\ seq[i].startOffset = seq[j].startOffset
                   /\ seq[i].createdAt >= seq[j].createdAt

\* C18: the annotations of a list response are the slice
\* (page-1)*limit+1 .. page*limit of a list of all the document's stored
\* annotations ordered by startOffset ascending and, among equal
\* startOffset, createdAt descending; total is the number of the document's
\* annotations.
C18_ListOrderedAndPaged ==
    \A m \in Listed :
       LET all == {a \in annotations : a.documentId = lastEvent.documentId}
           n == Cardinality(all)
           first == (m.page - 1) * m.limit
           rest == IF n > first THEN n - first ELSE 0
           size == IF rest < m.limit THEN rest ELSE m.limit
       IN  /\ m.total = n
           /\ \E L \in [1 .. n -> all] :
                 /\ \A a \in all : \E k \in 1 .. n : L[k] = a
                 /\ InListOrder(L)
                 /\ m.annotations = [k \in 1 .. size |-> L[first + k]]

\* C18 witness: the second page of two holds the annotation that was created
\* first although it is stored with the larger offset, and the document has
\* two annotations at one offset, listed newest first.
C18_Witness ==
    \E m \in Listed :
       /\ m.page = 2 /\ m.limit = 2 /\ m.total = 3
       /\ Len(m.annotations) = 1
       /\ m.annotations[1].id = 1
       /\ m.annotations[1].startOffset = 1
       /\ \E a, b \in annotations :
             /\ a.documentId = lastEvent.documentId /\ b.documentId = lastEvent.documentId
             /\ a.startOffset = 0 /\ b.startOffset = 0
             /\ a.id < b.id /\ a.createdAt < b.createdAt

----------------------------------------------------------------------------
(* Properties of findOverlapping (SpecOverlap) *)

\* The answers of findOverlapping in the last step.
Overlapping == {m \in emitted : m.event = "overlapping"}

\* C19: findOverlapping(documentId, S, E) returns exactly the stored
\* annotations of that document with startOffset < E and S < endOffset.
C19_FindOverlappingExact ==
    \A m \in Overlapping :
       m.found = {a \in annotations :
                    /\ a.documentId = lastEvent.documentId
                    /\ a.startOffset < lastEvent.endOffset
                    /\ lastEvent.startOffset < a.endOffset}

\* C19 witness: an answer that holds an annotation reaching over both ends
\* of the asked range, and leaves out an annotation of the document that
\* ends where the asked range starts and an annotation of another document
\* that covers the asked range.
C19_Witness ==
    \E m \in Overlapping :
       /\ \E a \in m.found :
             a.startOffset < lastEvent.startOffset /\ a.endOffset > lastEvent.endOffset
       /\ \E a \in annotations \ m.found :
             a.documentId = lastEvent.documentId /\ a.endOffset = lastEvent.startOffset
       /\ \E a \in annotations \ m.found :
             /\ a.documentId # lastEvent.documentId
             /\ a.startOffset <= lastEvent.startOffset
             /\ a.endOffset >= lastEvent.endOffset

----------------------------------------------------------------------------
(* Properties of hasDocumentAccess (SpecAccess) *)

\* C21 (as claimed): every call of hasDocumentAccess returns, and returns
\* true exactly when the document exists and the user is its owner or one
\* of its collaborators; for a document id that names no document it
\* returns false.
C21_AccessIffOwnerOrCollaborator ==
    lastEvent.op = "has-document-access"
    => \A m \in emitted :
          /\ m.event = "returned"
          /\ m.value = ( /\ lastEvent.documentId \in DOMAIN documents
                         /\ \/ documents[lastEvent.documentId].owner = lastEvent.user
                            \/ lastEvent.user \in
                                  documents[lastEvent.documentId].collaborators )

----------------------------------------------------------------------------
(* Properties of presence, continued (SpecRoom) *)

\* The active-users messages of the last step.
ActiveUsersSent == {m \in emitted : m.event = "active-users"}

\* C22: a join-document that ends with access granted on a connection that
\* is still open emits exactly one active-users message, to the joiner, for
\* the joined document, listing exactly the registry's members of that
\* document after the join, the joiner among them; a join that is refused
\* emits none, and no other connection ever receives one.
C22_ActiveUsersOnJoin ==
    lastEvent.op = "join-document"
    => /\ \A m \in ActiveUsersSent : m.to = lastEvent.sock
       /\ ~ HasDocumentAccess(lastEvent.user, lastEvent.documentId)
             => ActiveUsersSent = {}
       /\ ( /\ HasDocumentAccess(lastEvent.user, lastEvent.documentId)
            /\ lastEvent.sock \in connected )
          => /\ Cardinality(ActiveUsersSent) = 1
             /\ lastEvent.documentId \in DOMAIN documentUsers
             /\ lastEvent.user \in DOMAIN documentUsers[lastEvent.documentId]
             /\ \A m \in ActiveUsersSent :
                   /\ m.documentId = lastEvent.documentId
                   /\ m.users =
                        {[id |-> u, socketId |-> documentUsers[lastEvent.documentId][u]] :
                            u \in DOMAIN documentUsers[lastEvent.documentId]}

\* C22 witness: a join has just succeeded on a document another user is
\* present in, and the joiner was told of both members.
C22_Witness ==
    /\ lastEvent.op = "join-document"
    /\ \E m \in ActiveUsersSent :
          /\ m.to = lastEvent.sock
          /\ Cardinality(m.users) = 2
          /\ \E x \in m.users : x.id = lastEvent.user /\ x.socketId = lastEvent.sock

\* The registry entries that carry connection s.
EntriesOf(s) ==
    {<<d, u>> \in (DOMAIN documentUsers) \X Users :
        u \in DOMAIN documentUsers[d] /\ documentUsers[d][u] = s}

\* C24 (as claimed): once a connection has closed and no handler it started
\* is still in flight, the registry holds no entry that carries it.
C24_NoEntryAfterDisconnect ==
    \A s \in Sockets \ connected :
       (\A i \in Slots : handlers[i] = Idle \/ handlers[i].sock # s)
       => EntriesOf(s) = {}

\* The users the registry lists under document d.
RegistryMembers(d) ==
    IF d \in DOMAIN documentUsers THEN DOMAIN documentUsers[d] ELSE {}

\* The users with at least one open connection in the room of document d.
LiveUsers(d) == {socketUser[x] : x \in {y \in connected : d \in rooms[y]}}

\* C25 (as claimed): in every reachable state, for every document, the
\* registry's member set is exactly the set of users that have at least one
\* open connection in the document's room.
C25_RegistryMatchesRooms ==
    \A d \in DOMAIN documents \cup DOMAIN documentUsers :
       RegistryMembers(d) = LiveUsers(d)

\* C26: the registry never holds a document with an empty member set.
C26_NoEmptyEntry ==
    \A d \in DOMAIN documentUsers : DOMAIN documentUsers[d] # {}

\* C26 witness: a connection has just switched from one document to
\* another; the document it left, which another connection is still in the
\* room of, has lost its last registry member and its entry with it.
C26_Witness ==
    /\ lastEvent.op = "join-document"
    /\ lastEvent.sock \in connected
    /\ rooms[lastEvent.sock] = {lastEvent.documentId}
    /\ lastEvent.documentId \in DOMAIN documentUsers
    /\ \E d \in DOMAIN documents \ DOMAIN documentUsers :
          /\ d # lastEvent.documentId
          /\ \E m \in emitted : m.event = "active-users"
          /\ \E x \in connected : d \in rooms[x] /\ socketUser[x] = lastEvent.user

\* C27: when a join-document ends with access granted, the registry lists
\* the user under the document exactly once, with the connection of this
\* join, whether or not the user was listed there before.
C27_JoinIdempotent ==
    ( /\ lastEvent.op = "join-document"
      /\ HasDocumentAccess(lastEvent.user, lastEvent.documentId) )
    => /\ lastEvent.documentId \in DOMAIN documentUsers
       /\ lastEvent.user \in DOMAIN documentUsers[lastEvent.documentId]
       /\ {e \in GetActiveUsers(documentUsers, lastEvent.documentId) :
             e.id = lastEvent.user}
            = {[id |-> lastEvent.user, socketId |-> lastEvent.sock]}

\* C27 witness: a user present in a document through one connection has
\* just joined it again through another; the entry names the new connection.
C27_Witness ==
    /\ lastEvent.op = "join-document"
    /\ lastEvent.documentId \in DOMAIN documentUsers
    /\ lastEvent.user \in DOMAIN documentUsers[lastEvent.documentId]
    /\ documentUsers[lastEvent.documentId][lastEvent.user] = lastEvent.sock
    /\ \E x \in connected \ {lastEvent.sock} :
          /\ socketUser[x] = lastEvent.user
          /\ lastEvent.documentId \in rooms[x]
    /\ \E m \in emitted : /\ m.event = "user-joined"
                          /\ socketUser[m.to] = lastEvent.user

\* C28 (as claimed): when a connection that is in room D sends
\* leave-document(D), the registry no longer has its user under D, every
\* open connection of another user remaining in room D gets user-left for
\* that user, nobody outside the room gets anything, and the connection
\* stays open, authenticated and in no room.
C28_LeaveNotifiesRemaining ==
    [][ \A s \in connected : \A D \in rooms[s] :
           ( /\ lastEvent'.op = "leave-document"
             /\ lastEvent'.sock = s
             /\ lastEvent'.documentId = D )
           => /\ D \in DOMAIN documentUsers' => socketUser[s] \notin DOMAIN documentUsers'[D]
              /\ \A t \in connected \ {s} :
                    (D \in rooms[t] /\ socketUser[t] # socketUser[s])
                    => ([to |-> t] @@ UserLeft(socketUser[s], D)) \in emitted'
              /\ \A m \in emitted' :
                    /\ m.event = "user-left"
                    /\ m.to \in connected \ {s}
                    /\ D \in rooms[m.to]
              /\ s \in connected'
              /\ socketUser'[s] = socketUser[s]
              /\ rooms'[s] = {}
      ]_vars

----------------------------------------------------------------------------
(* Properties of connections closing mid-operation (SpecClosing) *)

\* The open connections in the room of document d.
RoomMembers(d) == {x \in connected : d \in rooms[x]}

\* The event a finished annotation handler broadcasts.
BroadcastOf(op) ==
    CASE op = "create-annotation" -> "annotation-created"
      [] op = "update-annotation" -> "annotation-updated"
      [] OTHER -> "annotation-deleted"

\* C23: a connection closing leaves the handlers it started in flight, and
\* every later step of such a handler does what it would have done: the
\* insert stores the record, the save writes the modified fields, deleteOne
\* removes the record, and the final step delivers the broadcast to every
\* open connection in the document's room.
C23_InFlightSurvivesDisconnect ==
    [][ /\ connected' # connected => handlers' = handlers
        /\ \A i \in Slots :
              ( /\ handlers[i].op \in AnnotationOps
                /\ handlers[i].sock \notin connected
                /\ handlers'[i] # handlers[i] )
              => LET h == handlers[i] IN
                 /\ ( /\ h.pc = "insert"
                      /\ StoredAt(h.documentId, h.user, h.startOffset, h.endOffset) = {} )
                    => Submitted(h, annotations') \ annotations # {}
                 /\ ( /\ h.op = "update-annotation" /\ h.pc = "save"
                      /\ h.modified # {} /\ FindById(h.annId) # {} )
                    => \E a \in annotations' : a.id = h.annId /\ a.comment = h.doc.comment
                 /\ h.pc = "deleteOne"
                    => \A a \in annotations' : a.id # h.annId
                 /\ h.pc \in {"populate", "broadcast"}
                    => LET d == IF h.op = "create-annotation" THEN h.documentId
                                ELSE h.doc.documentId
                       IN  /\ handlers'[i] = Idle
                           /\ {m.to : m \in {x \in emitted' : x.event = BroadcastOf(h.op)}}
                                 = RoomMembers(d) ]_vars

\* C23 witness: the requester has closed, its create-annotation has just
\* ended with the record stored, and the other connection in the room has
\* been sent annotation-created.
C23_Witness ==
    /\ lastEvent.op = "create-annotation"
    /\ lastEvent.sock \notin connected
    /\ \E a \in annotations : a.id = lastEvent.annId
    /\ \E m \in emitted : m.event = "annotation-created" /\ m.to = "s1"
    /\ "s1" \in connected

----------------------------------------------------------------------------
(* Properties of updates, continued (SpecUpdate) *)

\* The save of slot i's update handler (socket or REST) resolves in the step.
UpdateSaves(i) ==
    /\ handlers[i].op \in UpdateOps
    /\ handlers[i].pc = "save"
    /\ handlers'[i] # handlers[i]

\* C29: no step changes the id, documentId, userId, startOffset, endOffset
\* or color of a stored annotation; its comment changes only when the save
\* of an update that carries a comment resolves, and to that comment; its
\* isResolved changes only when the save of an update that carries
\* isResolved resolves, and to that value. An update that carries one of the
\* two leaves the other as stored.
C29_UpdateChangesOnlyCarried ==
    [][ \A a \in annotations : \A b \in annotations' :
           a.id = b.id
           => /\ b.documentId = a.documentId
              /\ b.userId = a.userId
              /\ b.startOffset = a.startOffset
              /\ b.endOffset = a.endOffset
              /\ b.color = a.color
              /\ b.comment # a.comment
                    => \E i \in Slots :
                          /\ UpdateSaves(i)
                          /\ handlers[i].annId = a.id
                          /\ "comment" \in handlers[i].modified
                          /\ b.comment = handlers[i].doc.comment
              /\ b.isResolved # a.isResolved
                    => \E i \in Slots :
                          /\ UpdateSaves(i)
                          /\ handlers[i].annId = a.id
                          /\ "isResolved" \in handlers[i].modified
                          /\ b.isResolved = handlers[i].doc.isResolved
      ]_vars

\* C29 witness: the annotation has been resolved by one update and given a
\* new comment by another that was loaded before the first was saved; both
\* changes are stored and the rest of the record is as created.
C29_Witness ==
    /\ lastEvent.op \in UpdateOps
    /\ "doc" \in DOMAIN lastEvent
    /\ lastEvent.modified = {"comment"}
    /\ lastEvent.doc.isResolved = FALSE
    /\ \E a \in annotations : \E c \in StoredAnnotations :
          /\ a.id = lastEvent.annId
          /\ a.isResolved = TRUE
          /\ a.comment = "b"
          /\ c.id = a.id
          /\ a = [c EXCEPT !.comment = "b", !.isResolved = TRUE]

----------------------------------------------------------------------------
(* Properties of requests from another room (SpecElsewhere) *)

\* The documentId stored in the annotation with this id.
StoredDocumentId(id) == (CHOOSE a \in StoredAnnotations : a.id = id).documentId

\* The userId stored in the annotation with this id.
StoredUserId(id) == (CHOOSE a \in StoredAnnotations : a.id = id).userId

\* C30: annotation-updated and annotation-deleted go to exactly the open
\* connections in the room of the documentId stored in the annotation, and
\* carry that documentId, whatever room the requester is in; a
\* delete-annotation by a user who did not create the annotation goes
\* through only when that user owns the document stored in the annotation,
\* not when the user merely owns the document whose room the connection is in.
C30_StoredDocumentDecides ==
    /\ \A m \in emitted :
          m.event \in {"annotation-updated", "annotation-deleted"}
          => /\ lastEvent.op \in {"update-annotation", "delete-annotation"}
             /\ {x.to : x \in {y \in emitted : y.event = m.event}}
                   = RoomMembers(StoredDocumentId(lastEvent.annId))
             /\ m.event = "annotation-deleted"
                   => m.documentId = StoredDocumentId(lastEvent.annId)
             /\ m.event = "annotation-updated"
                   => m.annotation.documentId = StoredDocumentId(lastEvent.annId)
    /\ ( /\ lastEvent.op = "delete-annotation"
         /\ "doc" \in DOMAIN lastEvent
         /\ \A m \in emitted : m.event # "error" )
       => \/ StoredUserId(lastEvent.annId) = lastEvent.user
          \/ documents[StoredDocumentId(lastEvent.annId)].owner = lastEvent.user

\* C30 witness: s3, which is in the room of d1, has deleted its annotation on
\* d2; annotation-deleted for d2 went to s2, the connection in the room of
\* d2, and to nobody in the room of d1.
C30_Witness ==
    /\ lastEvent.op = "delete-annotation"
    /\ lastEvent.sock = "s3"
    /\ rooms["s3"] = {"d1"}
    /\ StoredDocumentId(lastEvent.annId) = "d2"
    /\ emitted = {[to |-> "s2", event |-> "annotation-deleted",
                   annotationId |-> lastEvent.annId, documentId |-> "d2"]}

----------------------------------------------------------------------------
(* Properties of concurrent updates of one annotation (SpecRace) *)

\* The stored record with this id.
Stored(store, id) == CHOOSE a \in store : a.id = id

----------------------------------------------------------------------------
(* Properties of requests running to their end (SpecOutcome) *)

\* The messages are one error to socket s and nothing else.
OneError(s, msgs) ==
    /\ Cardinality(msgs) = 1
    /\ \A m \in msgs : m.event = "error" /\ m.to = s

\* The messages are the broadcast of an operation of kind op to the room of
\* one document and nothing else.
OneBroadcast(op, msgs) ==
    /\ msgs # {}
    /\ \A m \in msgs : m.event = BroadcastOf(op)
    /\ \E d \in DOMAIN documents : {m.to : m \in msgs} = RoomMembers(d)
    /\ \A m, n \in msgs : [x \in DOMAIN m \ {"to"} |-> m[x]] = [x \in DOMAIN n \ {"to"} |-> n[x]]

\* C32: every create-, update- or delete-annotation request that has ended
\* produced either one error to its requester or one broadcast to a room,
\* never both and never neither; and a request that is in flight eventually
\* ends.
C32_ExactlyOneOutcome ==
    /\ [](lastEvent.op \in AnnotationOps
            => /\ OneError(lastEvent.sock, emitted) \/ OneBroadcast(lastEvent.op, emitted)
               /\ ~ (OneError(lastEvent.sock, emitted) /\ OneBroadcast(lastEvent.op, emitted)))
    /\ \A i \in Slots : (handlers[i] # Idle) ~> (handlers[i] = Idle)

\* C32 witness: a delete-annotation that went through all its store calls has
\* just ended with annotation-deleted to both connections in the room.
C32_Witness ==
    /\ lastEvent.op = "delete-annotation"
    /\ OneBroadcast(lastEvent.op, emitted)
    /\ {m.to : m \in emitted} = {"s1", "s2"}
    /\ \A a \in annotations : a.id # lastEvent.annId

----------------------------------------------------------------------------
(* Properties of create-annotation with a forged payload (SpecForged) *)

\* C34: every annotation the socket handler stores has the userId of the
\* user authenticated on the connection that sent the request and that
\* user's color, whatever userId, color or isResolved the payload carries.
C34_AuthorIsAuthenticatedUser ==
    [][\A a \in annotations' \ annotations :
          \E i \in Slots :
              /\ handlers[i] # Idle
              /\ handlers[i].op = "create-annotation" /\ handlers[i].pc = "insert"
              /\ handlers'[i].annId = a.id
              /\ a.userId = socketUser[handlers[i].sock]
              /\ a.color = UserColor[socketUser[handlers[i].sock]]]_vars

\* C34 witness: u3's request, whose payload named u1 and u1's red, has stored
\* an annotation of u3 in blue.
C34_Witness ==
    /\ lastEvent.op = "create-annotation" /\ lastEvent.sock = "s3"
    /\ \E a \in annotations :
          /\ a.id = lastEvent.annId
          /\ a.userId = "u3" /\ a.color = "blue" /\ ~ a.isResolved

----------------------------------------------------------------------------
(* Properties of concurrent updates, continued (SpecRace) *)

\* C36: once every concurrent update of an annotation has finished, the
\* annotation carried by the last annotation-updated broadcast has the
\* comment and isResolved of the stored record.
C36_LastBroadcastIsStored ==
    (\A i \in Slots : handlers[i] = Idle)
        => \A m \in emitted :
              m.event = "annotation-updated"
                  => \E a \in annotations :
                        /\ a.id = m.annotation.id
                        /\ a.comment = m.annotation.comment
                        /\ a.isResolved = m.annotation.isResolved

----------------------------------------------------------------------------
(* Properties of concurrent deletes (SpecDelete) *)

\* C37: of two concurrent delete-annotation requests for one annotation only
\* one goes on to broadcast annotation-deleted: the request whose deleteOne
\* finds the record already removed by the other ends with the error
\* 'Annotation not found' to its requester.
C37_OneDeletedBroadcast ==
    [][\A i, j \in Slots :
          (/\ handlers[i].op = "delete-annotation" /\ handlers[i].pc = "deleteOne"
           /\ handlers[j].op = "delete-annotation" /\ handlers[j].pc = "broadcast"
           /\ handlers[j].annId = handlers[i].annId
           /\ handlers'[i] # handlers[i])
              => /\ handlers'[i] = Idle
                 /\ emitted' = SocketEmit(handlers[i].sock, ErrorMsg("Annotation not found"))]_vars

----------------------------------------------------------------------------
(* Properties of the store while documents are deleted (SpecDocument) *)

\* C39: every stored annotation refers to a stored document; once
\* deleteDocument(D) has removed D, no annotation with documentId D is
\* stored, whatever create-annotation requests were in flight.
C39_NoOrphanAnnotation ==
    \A a \in annotations : a.documentId \in DOMAIN documents

----------------------------------------------------------------------------
(* Properties of events sent right after connecting (SpecAuth) *)

\* C38: a join-document that reaches the server on an open connection with
\* a valid credential is handled, and so is answered with active-users or an
\* error, even when it arrives while authenticateSocket has not answered
\* yet: none is discarded unanswered.
C38_EarlyJoinAnswered ==
    ~ ( /\ lastEvent.op = "join-document"
        /\ lastEvent.pc = "dropped"
        /\ lastEvent.sock \in connected
        /\ ~ BadCredential(lastEvent.sock) )

----------------------------------------------------------------------------
(* Properties of the client's socket (SpecClient) *)

\* C33: when the client's socket reconnects, the client sends join-document
\* again for the document it had joined and has neither left with
\* leaveDocument nor dropped with disconnect() since.
C33_RejoinOnReconnect ==
    [][(clientSocket = "connecting" /\ clientSocket' = "open")
          => \A d \in joined : \E k \in DOMAIN sent' : sent'[k] = JoinMsg(d)]_vars

\* C33 witness: the socket of a client that had joined d2 and lost its
\* connection has just reconnected, and join-document {d2} went out again.
C33_Witness ==
    /\ lastEvent = [op |-> "on-connect"]
    /\ clientSocket = "open"
    /\ joined = {"d2"}
    /\ sent = <<JoinMsg("d2")>>

----------------------------------------------------------------------------
(* Properties of a page opening on a document (SpecPage) *)

\* The page has loaded and joined and nothing is on its way or in progress.
PageSettled ==
    /\ response = [state |-> "applied"]
    /\ PageDocument \in rooms[PageSocket]
    /\ outbox = << >>
    /\ inbox = << >>
    /\ \A i \in Slots : handlers[i] = Idle

\* C35: a client that loads the annotations over REST while it joins the
\* room, and applies every annotation event it receives, ends with a local
\* list equal to the store's annotations of the document, however the load,
\* the join and other clients' requests interleave.
C35_LocalListIsStore ==
    PageSettled
        => clientAnnotations = {a \in annotations : a.documentId = PageDocument}

====
